---------------------------- MODULE Spec2Model ----------------------------
(***************************************************************************)
(* A model of the Teleinfo project-portfolio dashboard: the CSV normalizer *)
(* (parseTeleinfoCsv, normalizePercent, normalizeStatus), the status / BU  *)
(* classifiers, the summary aggregation, the upload handler and the slide  *)
(* of a detailed project.                                                  *)
(*                                                                         *)
(* Texts are sequences of characters, one element per UTF-16 code unit.    *)
(* An ASCII character is written as itself; the few non-ASCII characters   *)
(* the program's literals use are written by name:                         *)
(*   "BOM" U+FEFF, "A~" U+00C3, "a~" U+00E3, "C," U+00C7, "c," U+00E7,      *)
(*   "a'" U+00E1.                                                          *)
(* Numbers are exact rationals [n, d] in lowest terms (d > 0); the special *)
(* values of the number type (NaN, +/-Infinity) are separate kinds.        *)
(***************************************************************************)
EXTENDS Integers, Sequences, FiniteSets, TLC

VARIABLES
    value,            \* normalizePercent: the argument of the call
    percResult,       \* normalizePercent: what the call returned
    percPc,           \* normalizePercent: "call" before, "done" after
    csvParts,         \* parseTeleinfoCsv: the pieces the CSV text is made of
    text,             \* parseTeleinfoCsv: the argument of the call
    rows,             \* parseTeleinfoCsv: the records returned
    alerts,           \* parseTeleinfoCsv: the alert() calls made, in order
    parsePc,          \* parseTeleinfoCsv: "call" before, "done" after
    statusArg,        \* classifiers: the status text classified
    buArg,            \* classifiers: the business-unit text classified
    classified,       \* classifiers: what each classifier returned
    classifyPc,       \* classifiers: "call" before, "done" after
    projects,         \* App: the record collection
    fileName,         \* App: the name of the file the collection came from
    statusFilter,     \* DashboardView: the status filter ("" is "Todos")
    buFilter,         \* DashboardView: the business-unit filter
    clientFilter,     \* DashboardView: the client filter
    reads,            \* the files being read, by name, in the order chosen
    lastAlerts,       \* the alert() calls of the last completed read
    inputFile,        \* the file input: the name of the file chosen last, "" for none
    projStart,        \* slide: the start date of the detailed project
    projEnd,          \* slide: the end date of the detailed project
    todayDay,         \* slide: the civil day of the clock, days since 1970-01-01
    timeZone,         \* slide: the time zone of the browser
    timelineInfo,     \* slide: the timelineInfo computed
    timelinePc,       \* slide: "render" before, "done" after
    soldHours,        \* slide: the sold hours of one business unit
    usedHours,        \* slide: the used hours of the same business unit
    barColor,         \* slide: the fill of the bar of the used hours
    hoursPc,          \* slide: "render" before, "done" after
    detailedProjects, \* MonitoringView: the saved projects (local storage)
    selectedProjectId, \* MonitoringView: "new" or the id of the project edited
    currentProject,   \* MonitoringView: the project in the editor
    now,              \* the clock: what Date.now() returned last
    edits,            \* the edit operations made so far
    route,            \* the route shown: "/", "/monitoring" or "/presentation"
    localStorage,     \* window.localStorage: the document of each key, or null
    storageFull,      \* whether the quota of window.localStorage is used up
    apiKey,           \* geminiService: whether process.env.API_KEY is set
    ai,               \* geminiService: the cached client, or null
    pendingCall,      \* geminiService: the call awaiting the collaborator, or null
    settled,          \* geminiService: the promises the calls returned, settled
    keyFacts,         \* PresentationView: the key facts
    nextSteps,        \* PresentationView: the next steps
    shownProjects,    \* PresentationView: the detailed projects it read
    newFactText,      \* PresentationView: the text input of a key fact
    newFactLogo,      \* PresentationView: the logo input of a key fact
    newNextStepProject, \* PresentationView: the project input of a next step
    newNextStepDesc,  \* PresentationView: the description input of a next step
    isSlideMode,      \* PresentationView: whether the slides are shown
    currentSlideIndex, \* PresentationView: the index of the slide shown
    selectedProjectForRisk, \* the project the risk dialog is open for, or null
    analysis,         \* RiskAnalysisModal: the text of the analysis
    isLoading,        \* RiskAnalysisModal: whether the dialog shows the spinner
    mounts,           \* how many times RiskAnalysisModal was mounted
    requests,         \* the calls of the dialogs awaiting the service
    crashed           \* whether a render threw and React removed the page

percVars == <<value, percResult, percPc>>
parseVars == <<csvParts, text, rows, alerts, parsePc>>
classifyVars == <<statusArg, buArg, classified, classifyPc>>
appVars == <<projects, fileName, statusFilter, buFilter, clientFilter, reads, lastAlerts,
             inputFile>>
timelineVars == <<projStart, projEnd, todayDay, timeZone, timelineInfo, timelinePc>>
hoursVars == <<soldHours, usedHours, barColor, hoursPc>>
editorVars == <<detailedProjects, selectedProjectId, currentProject, now, edits,
                route, localStorage, storageFull>>
aiVars == <<apiKey, ai, pendingCall, settled>>
presentationVars == <<keyFacts, nextSteps, shownProjects, newFactText, newFactLogo,
                      newNextStepProject, newNextStepDesc, isSlideMode, currentSlideIndex>>
dialogVars == <<selectedProjectForRisk, analysis, isLoading, mounts, requests, crashed>>
viewVars == <<presentationVars, dialogVars>>
detailVars == <<timelineVars, hoursVars, editorVars, aiVars, viewVars>>
vars == <<percVars, parseVars, classifyVars, appVars, detailVars>>

-----------------------------------------------------------------------------
(* Characters and the string primitives of the runtime the code calls.     *)

LowerLetters ==
    <<"a","b","c","d","e","f","g","h","i","j","k","l","m",
      "n","o","p","q","r","s","t","u","v","w","x","y","z","a~","c,">>

UpperLetters ==
    <<"A","B","C","D","E","F","G","H","I","J","K","L","M",
      "N","O","P","Q","R","S","T","U","V","W","X","Y","Z","A~","C,">>

Digits == <<"0","1","2","3","4","5","6","7","8","9">>

\* WhiteSpace and LineTerminator code units, as String.prototype.trim and
\* parseFloat see them (U+FEFF is WhiteSpace).
WhiteSpaceChars == {" ", "\t", "\n", "\r", "BOM"}

IsWhiteSpace(c) == c \in WhiteSpaceChars

\* the case mappings of the letters, as functions of the character
UpperOf ==
    [c \in {LowerLetters[i] : i \in 1..Len(LowerLetters)} |->
        UpperLetters[CHOOSE i \in 1..Len(LowerLetters) : LowerLetters[i] = c]]

LowerOf ==
    [c \in {UpperLetters[i] : i \in 1..Len(UpperLetters)} |->
        LowerLetters[CHOOSE i \in 1..Len(UpperLetters) : UpperLetters[i] = c]]

ToUpperChar(c) == IF c \in DOMAIN UpperOf THEN UpperOf[c] ELSE c

ToLowerChar(c) == IF c \in DOMAIN LowerOf THEN LowerOf[c] ELSE c

\* String.prototype.toUpperCase / toLowerCase
ToUpperCase(s) == [i \in 1..Len(s) |-> ToUpperChar(s[i])]
ToLowerCase(s) == [i \in 1..Len(s) |-> ToLowerChar(s[i])]

\* s.substring(k) with k counted from 0: drops the first k characters
Substring(s, k) == SubSeq(s, k + 1, Len(s))

\* String.prototype.trim
Trim(s) ==
    LET keep == {i \in 1..Len(s) : ~IsWhiteSpace(s[i])}
    IN  IF keep = {} THEN <<>>
        ELSE SubSeq(s, CHOOSE i \in keep : \A j \in keep : i <= j,
                       CHOOSE i \in keep : \A j \in keep : i >= j)

\* s.startsWith(p)
StartsWith(s, p) == Len(p) <= Len(s) /\ SubSeq(s, 1, Len(p)) = p

\* the least index at which p occurs in s, 0 when it does not occur
IndexOf(s, p) ==
    LET at == {i \in 1..(Len(s) - Len(p) + 1) : \A k \in 1..Len(p) : s[i + k - 1] = p[k]}
    IN  IF at = {} THEN 0 ELSE CHOOSE i \in at : \A j \in at : i <= j

\* s.includes(p)
Includes(s, p) == IndexOf(s, p) # 0

\* s.replace(p, r) with a string pattern: only the first occurrence
ReplaceFirst(s, p, r) ==
    LET i == IndexOf(s, p)
    IN  IF i = 0 THEN s
        ELSE SubSeq(s, 1, i - 1) \o r \o SubSeq(s, i + Len(p), Len(s))

\* s.replace(/c/g, '') for a one-character pattern c: every occurrence
RemoveAll(s, c) == SelectSeq(s, LAMBDA x : x # c)

\* the characters in ascending order of their UTF-16 code unit
CodeUnitOrder ==
    <<
      "\t","\n","\r"," ","!","\"","#","$","%","&","'","(",")","*","+",",",
      "-",".","/","0","1","2","3","4","5","6","7","8","9",":",";","<",
      "=",">","?","@","A","B","C","D","E","F","G","H","I","J","K","L",
      "M","N","O","P","Q","R","S","T","U","V","W","X","Y","Z","[",
      "]","^","_","a","b","c","d","e","f","g","h","i","j","k","l",
      "m","n","o","p","q","r","s","t","u","v","w","x","y","z","{","|",
      "}","~","A~","C,","a'","a~","c,","BOM" >>

CodeUnitRank ==
    [c \in {CodeUnitOrder[i] : i \in 1..Len(CodeUnitOrder)} |->
        CHOOSE i \in 1..Len(CodeUnitOrder) : CodeUnitOrder[i] = c]

\* a < b for strings that agree before position k: the comparison of the
\* code units at the first position where they differ, a proper prefix
\* being smaller
RECURSIVE StringLessFrom(_, _, _)
StringLessFrom(a, b, k) ==
    IF k > Len(b) THEN FALSE
    ELSE IF k > Len(a) THEN TRUE
    ELSE IF a[k] = b[k] THEN StringLessFrom(a, b, k + 1)
    ELSE CodeUnitRank[a[k]] < CodeUnitRank[b[k]]

StringLess(a, b) == StringLessFrom(a, b, 1)

\* Array.from(set).sort(): the strings of the set in ascending order
RECURSIVE SortStrings(_)
SortStrings(S) ==
    IF S = {} THEN <<>>
    ELSE LET least == CHOOSE x \in S : \A y \in S \ {x} : StringLess(x, y)
         IN  <<least>> \o SortStrings(S \ {least})

\* the elements of an array
ElementsOf(arr) == {arr[i] : i \in 1..Len(arr)}

-----------------------------------------------------------------------------
(* Numbers.                                                                *)

Abs(x) == IF x < 0 THEN -x ELSE x

RECURSIVE Gcd(_, _)
Gcd(a, b) == IF b = 0 THEN a ELSE Gcd(b, a % b)

RECURSIVE Pow10(_)
Pow10(k) == IF k <= 0 THEN 1 ELSE 10 * Pow10(k - 1)

\* the rational n/d (d # 0) in lowest terms with a positive denominator
Rat(n, d) ==
    LET g == Gcd(Abs(n), Abs(d))
        s == IF d < 0 THEN -1 ELSE 1
    IN  [kind |-> "number", n |-> (s * n) \div g, d |-> (s * d) \div g]

Null == [kind |-> "null"]
NaN == [kind |-> "NaN"]
Infinity(sign) == [kind |-> "Infinity", sign |-> sign]

DigitValueOf == [c \in {Digits[i] : i \in 1..Len(Digits)} |->
                    (CHOOSE i \in 1..Len(Digits) : Digits[i] = c) - 1]
IsDigit(c) == c \in DOMAIN DigitValueOf
DigitValue(c) == DigitValueOf[c]

\* the length of the longest run of digits of s starting at index i
RECURSIVE DigitRun(_, _)
DigitRun(s, i) ==
    IF i <= Len(s) /\ IsDigit(s[i]) THEN 1 + DigitRun(s, i + 1) ELSE 0

\* the value of the digit string s (0 for the empty string)
RECURSIVE DigitsValue(_)
DigitsValue(s) ==
    IF s = <<>> THEN 0
    ELSE 10 * DigitsValue(SubSeq(s, 1, Len(s) - 1)) + DigitValue(s[Len(s)])

InfinityWord == <<"I","n","f","i","n","i","t","y">>

\* parseFloat(s): leading white space is skipped, then the longest prefix
\* that is a StrDecimalLiteral is read: [+-] (Infinity | digits [. digits]
\* | . digits) [(e|E) [+-] digits].  NaN when there is no such prefix.
\* The value read: sign * mant * 10^(exp - n2), n2 the fraction's length.
ParseFloatValue(sign, mant, scale) ==
    IF scale >= 0 THEN Rat(sign * mant * Pow10(scale), 1)
    ELSE Rat(sign * mant, Pow10(-scale))

\* the exponent part, read at index p2, counts only with a digit in it
ParseFloatExponent(s, sign, mant, n2, p2) ==
    LET hasE == p2 <= Len(s) /\ s[p2] \in {"e", "E"}
        hasESign == hasE /\ p2 + 1 <= Len(s) /\ s[p2 + 1] \in {"+", "-"}
        p3 == IF hasESign THEN p2 + 2 ELSE p2 + 1
        n3 == IF hasE THEN DigitRun(s, p3) ELSE 0
        esign == IF hasESign /\ s[p2 + 1] = "-" THEN -1 ELSE 1
    IN  ParseFloatValue(sign, mant,
            (IF n3 = 0 THEN 0 ELSE esign * DigitsValue(SubSeq(s, p3, p3 + n3 - 1))) - n2)

\* the mantissa: n1 digits from index p1, then a point and n2 digits
ParseFloatMantissa(s, sign, p1, n1, hasPoint, n2) ==
    IF n1 + n2 = 0 THEN NaN
    ELSE ParseFloatExponent(s, sign,
             DigitsValue(SubSeq(s, p1, p1 + n1 - 1) \o SubSeq(s, p1 + n1 + 1, p1 + n1 + n2)),
             n2, IF hasPoint THEN p1 + n1 + 1 + n2 ELSE p1 + n1)

ParseFloatPoint(s, sign, p1, n1, hasPoint) ==
    ParseFloatMantissa(s, sign, p1, n1, hasPoint,
                       IF hasPoint THEN DigitRun(s, p1 + n1 + 1) ELSE 0)

ParseFloatDigits(s, sign, p1, n1) ==
    ParseFloatPoint(s, sign, p1, n1, p1 + n1 <= Len(s) /\ s[p1 + n1] = ".")

\* after the sign, at index p1
ParseFloatUnsigned(s, sign, p1) ==
    IF StartsWith(SubSeq(s, p1, Len(s)), InfinityWord) THEN Infinity(sign)
    ELSE ParseFloatDigits(s, sign, p1, DigitRun(s, p1))

\* at index p0, the first character that is not white space
ParseFloatSigned(s, p0) ==
    LET hasSign == p0 <= Len(s) /\ s[p0] \in {"+", "-"}
    IN  ParseFloatUnsigned(s, IF hasSign /\ s[p0] = "-" THEN -1 ELSE 1,
                           IF hasSign THEN p0 + 1 ELSE p0)

ParseFloat(s) ==
    LET lead == {i \in 1..Len(s) : ~IsWhiteSpace(s[i])}
    IN  ParseFloatSigned(s, IF lead = {} THEN Len(s) + 1
                            ELSE CHOOSE i \in lead : \A j \in lead : i <= j)

-----------------------------------------------------------------------------
(* The CSV normalizer's cell normalizers.                                  *)

Str(s) == [kind |-> "string", s |-> s]

\* the number forced into [0, 100]
ClampedNumber(num) ==
    IF num = NaN THEN Null
    ELSE IF num.kind = "Infinity" THEN (IF num.sign < 0 THEN Rat(0, 1) ELSE Rat(100, 1))
    ELSE IF num.n < 0 THEN Rat(0, 1)
    ELSE IF num.n > 100 * num.d THEN Rat(100, 1)
    ELSE num

\* return isNaN(num) ? null : num
NullIfNaN(num) == IF num = NaN THEN Null ELSE num

\* normalizePercent from the cleaned text on (lines 13 to 15)
PercentOfCleaned(cleaned) ==
    IF cleaned = <<>> THEN Null
    ELSE NullIfNaN(ParseFloat(ReplaceFirst(cleaned, <<",">>, <<".">>)))

\* normalizePercent(value); value is null (or undefined) or a string, which
\* is all its caller passes
normalizePercent(v) ==
    IF v.kind = "null" THEN Null
    ELSE PercentOfCleaned(Trim(ReplaceFirst(v.s, <<"%">>, <<>>)))

-----------------------------------------------------------------------------
(* The CSV normalizer.                                                     *)

\* the first alert: no line contains "CLIENTE"
AlertHeaderNotFound == "Erro de Analise: Nao foi possivel encontrar a linha de cabecalho"
\* the second alert: fewer than two usable lines from the header on
AlertEmptyOrHeaderOnly == "Erro de Analise: O arquivo CSV esta vazio ou contem apenas a linha de cabecalho"
\* the third alert: neither a CLIENTE nor a C.Custo column
AlertNoIdentityColumn == "Erro de Analise: O arquivo CSV deve conter uma coluna 'CLIENTE' ou 'C.Custo'"
\* the fourth alert: no row survived
AlertNoValidRows == "Aviso: Nenhuma linha de projeto valida foi encontrada no arquivo CSV"

ColCLIENTE == <<"C","L","I","E","N","T","E">>
ColTIPO_DE_PROJETO == <<"T","I","P","O"," ","D","E"," ","P","R","O","J","E","T","O">>
ColTIPO_DE_PRODUTO == <<"T","I","P","O"," ","D","E"," ","P","R","O","D","U","T","O">>
ColBUs == <<"B","U","s">>
ColC_Custo == <<"C",".","C","u","s","t","o">>
ColSTATUS == <<"S","T","A","T","U","S">>
ColPerc == <<"%">>

\* normalizeStatus(status), status a string: "" is falsy
normalizeStatus(status) ==
    IF status = <<>> THEN <<>> ELSE ToUpperCase(Trim(status))

\* if (text.charCodeAt(0) === 0xFEFF) text = text.substring(1)
StripBom(t) == IF Len(t) > 0 /\ t[1] = "BOM" THEN Substring(t, 1) ELSE t

\* s.split(/\r?\n/)
RECURSIVE SplitLines(_)
SplitLines(t) ==
    LET i == IndexOf(t, <<"\n">>)
    IN  IF i = 0 THEN <<t>>
        ELSE <<SubSeq(t, 1, IF i > 1 /\ t[i - 1] = "\r" THEN i - 2 ELSE i - 1)>>
             \o SplitLines(SubSeq(t, i + 1, Len(t)))

\* s.split(sep) for a one-character separator
RECURSIVE Split(_, _)
Split(s, sep) ==
    LET i == IndexOf(s, <<sep>>)
    IN  IF i = 0 THEN <<s>>
        ELSE <<SubSeq(s, 1, i - 1)>> \o Split(SubSeq(s, i + 1, Len(s)), sep)

\* Array.prototype.findIndex, given the set hit of the 1-based positions
\* whose element satisfies the predicate: the first of them as a 0-based
\* index, -1 when there is none
FindIndex(hit) ==
    IF hit = {} THEN -1 ELSE (CHOOSE i \in hit : \A j \in hit : i <= j) - 1

\* the LAST line that contains "CLIENTE" is taken
HeaderRowIndexLast(allLines) ==
    LET hit == {i \in 1..Len(allLines) : Includes(ToUpperCase(allLines[i]), ColCLIENTE)}
    IN  IF hit = {} THEN -1 ELSE (CHOOSE i \in hit : \A j \in hit : i >= j) - 1

\* allLines.findIndex(l => l.toUpperCase().includes('CLIENTE'))
HeaderRowIndex(allLines) ==
    FindIndex({i \in 1..Len(allLines) : Includes(ToUpperCase(allLines[i]), ColCLIENTE)})

\* allLines.slice(headerRowIndex).filter(l => l.replace(/;/g, '').trim().length > 0)
UsableLines(allLines, headerRowIndex) ==
    SelectSeq(SubSeq(allLines, headerRowIndex + 1, Len(allLines)),
              LAMBDA l : Len(Trim(RemoveAll(l, ";"))) > 0)

\* lines[0].split(sep).map(h => h.trim())
Headers(line) ==
    LET cells == Split(line, ";") IN [i \in 1..Len(cells) |-> Trim(cells[i])]

\* findIndex taking the LAST header that equals the name
RECURSIVE findIndexLast(_, _)
findIndexLast(headers, possibleNames) ==
    IF possibleNames = <<>> THEN -1
    ELSE LET hit == {i \in 1..Len(headers) :
                        ToLowerCase(headers[i]) = ToLowerCase(Head(possibleNames))}
         IN  IF hit # {} THEN (CHOOSE i \in hit : \A j \in hit : i >= j) - 1
             ELSE findIndexLast(headers, Tail(possibleNames))

\* findIndex(possibleNames): the first name that some header equals,
\* ignoring case, decides; the first such header's 0-based index
RECURSIVE findIndex(_, _)
findIndex(headers, possibleNames) ==
    IF possibleNames = <<>> THEN -1
    ELSE LET idx == FindIndex({i \in 1..Len(headers) :
                            ToLowerCase(headers[i]) = ToLowerCase(Head(possibleNames))})
         IN  IF idx # -1 THEN idx ELSE findIndex(headers, Tail(possibleNames))

IdxMap(headers) ==
    [ cliente     |-> findIndex(headers, <<ColCLIENTE>>),
      tipoProjeto |-> findIndex(headers, <<ColTIPO_DE_PROJETO>>),
      tipoProduto |-> findIndex(headers, <<ColTIPO_DE_PRODUTO>>),
      bus         |-> findIndex(headers, <<ColBUs>>),
      cCusto      |-> findIndex(headers, <<ColC_Custo>>),
      status      |-> findIndex(headers, <<ColSTATUS>>),
      perc        |-> findIndex(headers, <<ColPerc>>) ]

\* getCell(idx) = cells[idx]?.trim() || ""
getCell(cells, idx) ==
    IF 0 <= idx /\ idx < Len(cells) THEN Trim(cells[idx + 1]) ELSE <<>>

\* the object pushed for one data line
RowOf(cells, idxMap, cliente, cCusto) ==
    [ CLIENTE         |-> cliente,
      TIPO_DE_PROJETO |-> IF idxMap.tipoProjeto > -1 THEN getCell(cells, idxMap.tipoProjeto) ELSE <<>>,
      TIPO_DE_PRODUTO |-> IF idxMap.tipoProduto > -1 THEN getCell(cells, idxMap.tipoProduto) ELSE <<>>,
      BUs             |-> IF idxMap.bus > -1 THEN getCell(cells, idxMap.bus) ELSE <<>>,
      C_Custo         |-> cCusto,
      STATUS          |-> normalizeStatus(IF idxMap.status > -1 THEN getCell(cells, idxMap.status) ELSE <<>>),
      perc            |-> normalizePercent(IF idxMap.perc > -1 THEN Str(getCell(cells, idxMap.perc)) ELSE Null) ]

\* a line is skipped only when its CLIENTE cell is blank, whatever C.Custo
RowSkippedOnClienteOnly(cliente, cCusto) == cliente = <<>>

\* if (!cliente && !cCusto) continue
RowSkipped(cliente, cCusto) == cliente = <<>> /\ cCusto = <<>>

\* for (let i = 1; i < lines.length; i++) { ... }, from 0-based i on
RECURSIVE RowsFrom(_, _, _)
RowsFrom(lines, idxMap, i) ==
    IF ~(i < Len(lines)) THEN <<>>
    ELSE LET cells == Split(lines[i + 1], ";")
             cliente == IF idxMap.cliente > -1 THEN getCell(cells, idxMap.cliente) ELSE <<>>
             cCusto == IF idxMap.cCusto > -1 THEN getCell(cells, idxMap.cCusto) ELSE <<>>
         IN  (IF RowSkipped(cliente, cCusto) THEN <<>>
              ELSE <<RowOf(cells, idxMap, cliente, cCusto)>>)
             \o RowsFrom(lines, idxMap, i + 1)

\* the identity columns are not validated
NoIdentityColumnNever(idxMap) == FALSE

\* if (idxMap.cliente === -1 && idxMap.cCusto === -1)
NoIdentityColumn(idxMap) == idxMap.cliente = -1 /\ idxMap.cCusto = -1

\* a header followed by nothing is accepted
TooFewLinesNever(lines) == Len(lines) < 1

\* if (lines.length < 2)
TooFewLines(lines) == Len(lines) < 2

\* parseTeleinfoCsv, from each of its steps on: the records returned and
\* the alerts raised
ParseResult(parsed) ==
    [rows |-> parsed,
     alerts |-> IF Len(parsed) = 0 THEN <<AlertNoValidRows>> ELSE <<>>]

ParseWithColumns(lines, idxMap) ==
    IF NoIdentityColumn(idxMap)
    THEN [rows |-> <<>>, alerts |-> <<AlertNoIdentityColumn>>]
    ELSE ParseResult(RowsFrom(lines, idxMap, 1))

ParseUsableLines(lines) ==
    IF TooFewLines(lines)
    THEN [rows |-> <<>>, alerts |-> <<AlertEmptyOrHeaderOnly>>]
    ELSE ParseWithColumns(lines, IdxMap(Headers(lines[1])))

ParseFromHeader(allLines, headerRowIndex) ==
    IF headerRowIndex = -1
    THEN [rows |-> <<>>, alerts |-> <<AlertHeaderNotFound>>]
    ELSE ParseUsableLines(UsableLines(allLines, headerRowIndex))

ParseLines(allLines) == ParseFromHeader(allLines, HeaderRowIndex(allLines))

\* parseTeleinfoCsv(text)
parseTeleinfoCsv(t) == ParseLines(SplitLines(StripBom(t)))

-----------------------------------------------------------------------------
(* The status and business-unit classifiers.  DashboardView.tsx and        *)
(* PresentationView.tsx each carry their own copy; the copies of the       *)
(* presentation are prefixed Presentation.                                 *)

LabelFINALIZADO == <<"F","I","N","A","L","I","Z","A","D","O">>
LabelEM_ANDAMENTO == <<"E","M"," ","A","N","D","A","M","E","N","T","O">>
LabelPARALIZADO == <<"P","A","R","A","L","I","Z","A","D","O">>
LabelNAO_INICIADO == <<"N","A~","O"," ","I","N","I","C","I","A","D","O">>

\* const statusColors (DashboardView.tsx)
statusColors ==
    [ FINALIZADO   |-> [pill |-> "bg-green-500/10 text-green-400", chart |-> "#22c55e"],
      EM_ANDAMENTO |-> [pill |-> "bg-blue-500/10 text-blue-400", chart |-> "#3b82f6"],
      PARALIZADO   |-> [pill |-> "bg-red-500/10 text-red-400", chart |-> "#ef4444"],
      NAO_INICIADO |-> [pill |-> "bg-yellow-500/10 text-yellow-400", chart |-> "#eab308"],
      DEFAULT      |-> [pill |-> "bg-gray-500/10 text-gray-400", chart |-> "#6b7280"] ]

\* const statusColors (PresentationView.tsx)
PresentationStatusColors ==
    [ FINALIZADO   |-> [pill |-> "bg-green-500/10 text-green-400", chart |-> "#22c55e"],
      EM_ANDAMENTO |-> [pill |-> "bg-blue-500/10 text-blue-400", chart |-> "#3b82f6"],
      PARALIZADO   |-> [pill |-> "bg-red-500/10 text-red-400", chart |-> "#ef4444"],
      NAO_INICIADO |-> [pill |-> "bg-yellow-500/10 text-yellow-400", chart |-> "#eab308"],
      DEFAULT      |-> [pill |-> "bg-gray-500/10 text-gray-400", chart |-> "#6b7280"] ]

\* the chain with === in place of startsWith
StatusClassOfExact(normalized) ==
    IF normalized = LabelFINALIZADO THEN statusColors.FINALIZADO.pill
    ELSE IF normalized = LabelEM_ANDAMENTO THEN statusColors.EM_ANDAMENTO.pill
    ELSE IF normalized = LabelPARALIZADO THEN statusColors.PARALIZADO.pill
    ELSE IF normalized = LabelNAO_INICIADO THEN statusColors.NAO_INICIADO.pill
    ELSE statusColors.DEFAULT.pill

\* getStatusClass from the normalized text on (lines 113 to 117)
StatusClassOf(normalized) ==
    IF StartsWith(normalized, LabelFINALIZADO) THEN statusColors.FINALIZADO.pill
    ELSE IF StartsWith(normalized, LabelEM_ANDAMENTO) THEN statusColors.EM_ANDAMENTO.pill
    ELSE IF StartsWith(normalized, LabelPARALIZADO) THEN statusColors.PARALIZADO.pill
    ELSE IF StartsWith(normalized, LabelNAO_INICIADO) THEN statusColors.NAO_INICIADO.pill
    ELSE statusColors.DEFAULT.pill

getStatusClass(s) == StatusClassOf(normalizeStatus(s))

\* getStatusChartColor from the normalized text on (lines 122 to 126)
StatusChartColorOf(normalized) ==
    IF StartsWith(normalized, LabelFINALIZADO) THEN statusColors.FINALIZADO.chart
    ELSE IF StartsWith(normalized, LabelEM_ANDAMENTO) THEN statusColors.EM_ANDAMENTO.chart
    ELSE IF StartsWith(normalized, LabelPARALIZADO) THEN statusColors.PARALIZADO.chart
    ELSE IF StartsWith(normalized, LabelNAO_INICIADO) THEN statusColors.NAO_INICIADO.chart
    ELSE statusColors.DEFAULT.chart

getStatusChartColor(s) == StatusChartColorOf(normalizeStatus(s))

\* normalizeStatus of PresentationView.tsx
PresentationNormalizeStatus(s) ==
    IF s = <<>> THEN <<>> ELSE ToUpperCase(Trim(s))

PresentationStatusChartColorOf(normalized) ==
    IF StartsWith(normalized, LabelFINALIZADO) THEN PresentationStatusColors.FINALIZADO.chart
    ELSE IF StartsWith(normalized, LabelEM_ANDAMENTO) THEN PresentationStatusColors.EM_ANDAMENTO.chart
    ELSE IF StartsWith(normalized, LabelPARALIZADO) THEN PresentationStatusColors.PARALIZADO.chart
    ELSE IF StartsWith(normalized, LabelNAO_INICIADO) THEN PresentationStatusColors.NAO_INICIADO.chart
    ELSE PresentationStatusColors.DEFAULT.chart

\* getStatusChartColor of PresentationView.tsx
PresentationGetStatusChartColor(s) ==
    PresentationStatusChartColorOf(PresentationNormalizeStatus(s))

WordINFRAESTRUTURA == <<"I","N","F","R","A","E","S","T","R","U","T","U","R","A">>
WordSEGURANCA == <<"S","E","G","U","R","A","N","C,","A">>
WordTI == <<"T","I">>
WordAUTOMACAO == <<"A","U","T","O","M","A","C,","A~","O">>

\* the chain with AUTOMACAO tested before TI
BuChartColorOfAutomacaoFirst(normalized) ==
    IF Includes(normalized, WordINFRAESTRUTURA) THEN "#f97316"
    ELSE IF Includes(normalized, WordSEGURANCA) THEN "#10b981"
    ELSE IF Includes(normalized, WordAUTOMACAO) THEN "#6b7280"
    ELSE IF Includes(normalized, WordTI) THEN "#0b5ed7"
    ELSE "#8b949e"

\* getBuChartColor from the normalized text on (lines 131 to 135)
BuChartColorOf(normalized) ==
    IF Includes(normalized, WordINFRAESTRUTURA) THEN "#f97316"
    ELSE IF Includes(normalized, WordSEGURANCA) THEN "#10b981"
    ELSE IF Includes(normalized, WordTI) THEN "#0b5ed7"
    ELSE IF Includes(normalized, WordAUTOMACAO) THEN "#6b7280"
    ELSE "#8b949e"

getBuChartColor(b) == BuChartColorOf(ToUpperCase(Trim(b)))

\* getBuChartColor of PresentationView.tsx
PresentationBuChartColorOf(normalized) ==
    IF Includes(normalized, WordINFRAESTRUTURA) THEN "#f97316"
    ELSE IF Includes(normalized, WordSEGURANCA) THEN "#10b981"
    ELSE IF Includes(normalized, WordTI) THEN "#0b5ed7"
    ELSE IF Includes(normalized, WordAUTOMACAO) THEN "#6b7280"
    ELSE "#8b949e"

PresentationGetBuChartColor(b) == PresentationBuChartColorOf(ToUpperCase(Trim(b)))

-----------------------------------------------------------------------------
(* The summary aggregation of the dashboard (over the filtered records)    *)
(* and of the presentation (over all records).                             *)

\* a + b of two finite numbers
NumAdd(a, b) == Rat(a.n * b.d + b.n * a.d, a.d * b.d)

\* a / k of a finite number and a positive count
NumDiv(a, k) == Rat(a.n, a.d * k)

\* the decimal digits of a natural number
RECURSIVE NatToString(_)
NatToString(n) ==
    IF n < 10 THEN <<Digits[n + 1]>>
    ELSE Append(NatToString(n \div 10), Digits[(n % 10) + 1])

\* Number.prototype.toFixed(1) of a finite number below 10^21: the tenths
\* n for which n / 10 - x is as close to zero as possible, the larger n
\* when there are two
ToFixed1(x) ==
    LET n == (20 * Abs(x.n) + x.d) \div (2 * x.d)
    IN  (IF x.n < 0 THEN <<"-">> ELSE <<>>)
            \o NatToString(n \div 10) \o <<".">> \o NatToString(n % 10)

\* percValues.reduce((a, b) => a + b, 0)
RECURSIVE SumOf(_)
SumOf(percValues) ==
    IF percValues = <<>> THEN Rat(0, 1)
    ELSE NumAdd(SumOf(SubSeq(percValues, 1, Len(percValues) - 1)),
                percValues[Len(percValues)])

\* data.map(p => p.perc).filter(v => typeof v === 'number')
PercValues(data) ==
    SelectSeq([i \in 1..Len(data) |-> data[i].perc], LAMBDA v : v.kind = "number")

\* the counters of the forEach loops, all zero
NoCounts == [finished |-> 0, inProgress |-> 0, paralyzed |-> 0, notStarted |-> 0]

\* the counters after the loop has seen the listed counter names
RECURSIVE CountsAfter(_, _)
CountsAfter(names, counts) ==
    IF names = <<>> THEN counts
    ELSE CountsAfter(Tail(names),
                     IF Head(names) = "none" THEN counts
                     ELSE [counts EXCEPT ![Head(names)] = @ + 1])

\* the chain with === in place of startsWith
CounterOfExact(s) ==
    IF s = LabelFINALIZADO THEN "finished"
    ELSE IF s = LabelEM_ANDAMENTO THEN "inProgress"
    ELSE IF s = LabelPARALIZADO THEN "paralyzed"
    ELSE IF s = LabelNAO_INICIADO THEN "notStarted"
    ELSE "none"

\* the if / else-if chain of the dashboard's loop: the counter a STATUS
\* increments
CounterOf(s) ==
    IF StartsWith(s, LabelFINALIZADO) THEN "finished"
    ELSE IF StartsWith(s, LabelEM_ANDAMENTO) THEN "inProgress"
    ELSE IF StartsWith(s, LabelPARALIZADO) THEN "paralyzed"
    ELSE IF StartsWith(s, LabelNAO_INICIADO) THEN "notStarted"
    ELSE "none"

\* the average with every record counted, a null percentage as 0
AvgOfAllRecords(data) ==
    IF Len(data) # 0
    THEN NumDiv(SumOf(PercValues(data)), Len(data))
    ELSE Rat(0, 1)

\* const avg = percValues.length ? sum / percValues.length : 0
AvgOf(data) ==
    IF Len(PercValues(data)) # 0
    THEN NumDiv(SumOf(PercValues(data)), Len(PercValues(data)))
    ELSE Rat(0, 1)

SummaryWith(data, counts) ==
    [ total      |-> Len(data),
      avgPercent |-> ToFixed1(AvgOf(data)) \o <<"%">>,
      finished   |-> counts.finished,
      inProgress |-> counts.inProgress,
      paralyzed  |-> counts.paralyzed,
      notStarted |-> counts.notStarted ]

\* the summary the dashboard's memo computes from data
Summary(data) ==
    SummaryWith(data, CountsAfter([i \in 1..Len(data) |-> CounterOf(data[i].STATUS)],
                                  NoCounts))

\* the if / else-if chain of the presentation's loop
PresentationCounterOf(s) ==
    IF StartsWith(s, LabelFINALIZADO) THEN "finished"
    ELSE IF StartsWith(s, LabelEM_ANDAMENTO) THEN "inProgress"
    ELSE IF StartsWith(s, LabelPARALIZADO) THEN "paralyzed"
    ELSE IF StartsWith(s, LabelNAO_INICIADO) THEN "notStarted"
    ELSE "none"

PresentationAvgOf(data) ==
    IF Len(PercValues(data)) # 0
    THEN NumDiv(SumOf(PercValues(data)), Len(PercValues(data)))
    ELSE Rat(0, 1)

PortfolioSummaryWith(data, counts) ==
    [ total      |-> Len(data),
      avgPercent |-> ToFixed1(PresentationAvgOf(data)) \o <<"%">>,
      finished   |-> counts.finished,
      inProgress |-> counts.inProgress,
      paralyzed  |-> counts.paralyzed,
      notStarted |-> counts.notStarted ]

\* the summary the presentation's memo computes from allProjects
PortfolioSummary(data) ==
    PortfolioSummaryWith(data,
        CountsAfter([i \in 1..Len(data) |-> PresentationCounterOf(data[i].STATUS)],
                    NoCounts))

\* the dashboard's filter over prefixes in place of equal values
filteredProjectsByPrefix ==
    SelectSeq(projects,
              LAMBDA p : /\ (statusFilter # <<>> => StartsWith(p.STATUS, statusFilter))
                         /\ (buFilter # <<>> => StartsWith(p.BUs, buFilter))
                         /\ (clientFilter # <<>> => StartsWith(p.CLIENTE, clientFilter)))

\* the dashboard's filteredProjects: an empty filter lets every record pass
filteredProjects ==
    SelectSeq(projects,
              LAMBDA p : /\ (statusFilter # <<>> => p.STATUS = statusFilter)
                         /\ (buFilter # <<>> => p.BUs = buFilter)
                         /\ (clientFilter # <<>> => p.CLIENTE = clientFilter))

\* the values the dashboard's filter drop-downs offer: the non-empty values
\* of all records, sorted
uniqueFilters ==
    [ statuses |-> SortStrings({projects[i].STATUS : i \in 1..Len(projects)} \ {<<>>}),
      bus      |-> SortStrings({projects[i].BUs : i \in 1..Len(projects)} \ {<<>>}),
      clients  |-> SortStrings({projects[i].CLIENTE : i \in 1..Len(projects)} \ {<<>>}) ]

\* the memo values of the two views in the current state
summary == Summary(filteredProjects)
portfolioSummary == PortfolioSummary(projects)

\* what the dashboard route renders: the welcome screen while there is no
\* record, the dashboard proper otherwise
DashboardScreen == IF Len(projects) = 0 THEN "welcome" ELSE "dashboard"

-----------------------------------------------------------------------------
(* The tallies handed to the charts.  statusCounts and buCounts are plain  *)
(* objects used as maps: a key that is not an own property is looked up in *)
(* Object.prototype.  An object is modelled by its own enumerable string   *)
(* keys in insertion order (the pools hold no canonical array index, which *)
(* Object.entries would list first).                                       *)

\* the function-valued properties every plain object inherits
ObjectPrototypeNames ==
    { <<"c","o","n","s","t","r","u","c","t","o","r">>, <<"t","o","S","t","r","i","n","g">>, <<"v","a","l","u","e","O","f">>, <<"t","o","L","o","c","a","l","e","S","t","r","i","n","g">>, <<"h","a","s","O","w","n","P","r","o","p","e","r","t","y">>,
      <<"i","s","P","r","o","t","o","t","y","p","e","O","f">>, <<"p","r","o","p","e","r","t","y","I","s","E","n","u","m","e","r","a","b","l","e">>, <<"_","_","d","e","f","i","n","e","G","e","t","t","e","r","_","_">>,
      <<"_","_","d","e","f","i","n","e","S","e","t","t","e","r","_","_">>, <<"_","_","l","o","o","k","u","p","G","e","t","t","e","r","_","_">>, <<"_","_","l","o","o","k","u","p","S","e","t","t","e","r","_","_">> }

\* the accessor property through which an object's prototype is read and set
ProtoName == <<"_","_","p","r","o","t","o","_","_">>

\* Function.prototype.toString of the built-in function of that name
NativeFunctionSource(name) ==
    <<"f","u","n","c","t","i","o","n"," ">> \o (IF name = <<"c","o","n","s","t","r","u","c","t","o","r">> THEN <<"O","b","j","e","c","t">> ELSE name)
        \o <<"(",")"," ","{"," ","[","n","a","t","i","v","e"," ","c","o","d","e","]"," ","}">>

\* the position of the own property key in obj, 0 when there is none
OwnIndex(obj, key) ==
    LET at == {i \in 1..Len(obj) : obj[i].name = key}
    IN  IF at = {} THEN 0 ELSE CHOOSE i \in at : TRUE

\* (obj[key] || 0) + 1: an own count plus one; 1 for a key the object and
\* its prototype do not have; for an inherited function or the prototype
\* object itself, a string (the operand converted to a string, then "1")
PlusOne(obj, key) ==
    IF OwnIndex(obj, key) # 0
    THEN (IF obj[OwnIndex(obj, key)].value.kind = "number"
          THEN NumAdd(obj[OwnIndex(obj, key)].value, Rat(1, 1))
          ELSE Str(obj[OwnIndex(obj, key)].value.s \o <<"1">>))
    ELSE IF key \in ObjectPrototypeNames THEN Str(NativeFunctionSource(key) \o <<"1">>)
    ELSE IF key = ProtoName THEN Str(<<"[","o","b","j","e","c","t"," ","O","b","j","e","c","t","]","1">>)
    ELSE Rat(1, 1)

\* obj[key] = v: replaces the own property, or adds one last; assigning a
\* string or a number to __proto__ changes nothing
SetProperty(obj, key, v) ==
    IF OwnIndex(obj, key) # 0
    THEN [obj EXCEPT ![OwnIndex(obj, key)] = [name |-> key, value |-> v]]
    ELSE IF key = ProtoName THEN obj
    ELSE Append(obj, [name |-> key, value |-> v])

\* counts[key] = (counts[key] || 0) + 1 for each key in turn
RECURSIVE CountKeys(_, _)
CountKeys(keys, obj) ==
    IF keys = <<>> THEN obj
    ELSE CountKeys(Tail(keys), SetProperty(obj, Head(keys), PlusOne(obj, Head(keys))))

\* s || "N/A"
OrNA(s) == IF s = <<>> THEN <<"N","/","A">> ELSE s

\* the dashboard's statusCounts and buCounts after its loop over data
StatusCounts(data) == CountKeys([i \in 1..Len(data) |-> OrNA(data[i].STATUS)], <<>>)
BuCounts(data) == CountKeys([i \in 1..Len(data) |-> OrNA(data[i].BUs)], <<>>)

\* Object.entries(statusCounts).map(...) and Object.entries(buCounts).map(...)
StatusChartData(data) ==
    [i \in 1..Len(StatusCounts(data)) |->
        [ name     |-> StatusCounts(data)[i].name,
          Projetos |-> StatusCounts(data)[i].value,
          color    |-> getStatusChartColor(StatusCounts(data)[i].name) ]]

BuChartData(data) ==
    [i \in 1..Len(BuCounts(data)) |->
        [ name     |-> BuCounts(data)[i].name,
          Projetos |-> BuCounts(data)[i].value,
          color    |-> getBuChartColor(BuCounts(data)[i].name) ]]

\* the same of the presentation
PresentationStatusCounts(data) ==
    CountKeys([i \in 1..Len(data) |-> OrNA(data[i].STATUS)], <<>>)
PresentationBuCounts(data) ==
    CountKeys([i \in 1..Len(data) |-> OrNA(data[i].BUs)], <<>>)

PresentationStatusChartData(data) ==
    [i \in 1..Len(PresentationStatusCounts(data)) |->
        [ name     |-> PresentationStatusCounts(data)[i].name,
          Projetos |-> PresentationStatusCounts(data)[i].value,
          color    |-> PresentationGetStatusChartColor(PresentationStatusCounts(data)[i].name) ]]

PresentationBuChartData(data) ==
    [i \in 1..Len(PresentationBuCounts(data)) |->
        [ name     |-> PresentationBuCounts(data)[i].name,
          Projetos |-> PresentationBuCounts(data)[i].value,
          color    |-> PresentationGetBuChartColor(PresentationBuCounts(data)[i].name) ]]

\* the chart data of the two views in the current state
statusChartData == StatusChartData(filteredProjects)
buChartData == BuChartData(filteredProjects)
portfolioStatusChartData == PresentationStatusChartData(projects)
portfolioBuChartData == PresentationBuChartData(projects)

-----------------------------------------------------------------------------
(* normalizePercent applied to bounded inputs.                             *)

MaxPercentLen == 4

PercentAlphabet == {"4", "5", "%", ",", ".", " ", "a", "-"}

RECURSIVE StringsUpTo(_, _)
StringsUpTo(A, k) ==
    IF k = 0 THEN {<<>>}
    ELSE LET shorter == StringsUpTo(A, k - 1)
         IN  shorter \cup {Append(s, c) : s \in shorter, c \in A}

\* the inputs the specification and its tests name, and inputs that
\* exercise the exponent and Infinity forms of a number
PercentExamples ==
    { <<"4","5","%">>, <<"4","5",",","5">>, <<"4","5",".","5">>,
      <<" ","4","5"," ">>, <<"a","b","c","%">>, <<"8","0","%">>,
      <<"1","0","0",",","0","0","%">>, <<"1","5","0","%">>,
      <<"4","e","2">>, <<"5","E","-","1","%">>, <<"4","e">>, <<"+","4","5">>,
      <<"I","n","f","i","n","i","t","y">>, <<"-","I","n","f","i","n","i","t","y","%">>,
      <<"4","5"," ","%">>, <<"%","4","5">>, <<"4","%","5">>, <<"4","5","%","%">>,
      <<"1",".","2","3","4",",","5">>, <<"4","5","a","b","c">>,
      <<"\t","4","5","\r">> }

PercentInputs ==
    {Null} \cup {Str(s) : s \in StringsUpTo(PercentAlphabet, MaxPercentLen) \cup PercentExamples}

PercentInit ==
    /\ value \in PercentInputs
    /\ percResult = Null
    /\ percPc = "call"

CallNormalizePercent ==
    /\ percPc = "call"
    /\ percResult' = normalizePercent(value)
    /\ percPc' = "done"
    /\ UNCHANGED value

PercentIdle ==
    /\ value = Null
    /\ percResult = Null
    /\ percPc = "idle"



-----------------------------------------------------------------------------
(* parseTeleinfoCsv applied to bounded inputs: an optional byte-order      *)
(* mark, junk lines that do not contain "CLIENTE", at most one header      *)
(* line, and data lines, joined by LF or CRLF.                             *)

MaxLines == 3

JunkPool ==
    { <<"R","e","l"," ","1">>,
      <<"C",".","C","u","s","t","o",";","%">> }

HeaderPool ==
    { <<"C","L","I","E","N","T","E",";","S","T","A","T","U","S",";","%">>,
      <<" ","c","l","i","e","n","t","e"," ",";","c",".","c","u","s","t","o",";"," ","S","t","a","t","u","s"," ">>,
      <<"N","O","M","E"," ","D","O"," ","C","L","I","E","N","T","E",";","S","T","A","T","U","S">>,
      <<"C","l","i","e","n","t","e","s",";","C",".","C","U","S","T","O",";","%">>,
      <<"C","L","I","E","N","T","E",";","B","U","s",";","C",".","C","u","s","t","o",";","S","T","A","T","U","S",";","%">>,
      <<"%",";","C","l","i","e","n","t","e",";","%",";","C","L","I","E","N","T","E">> }

DataPool ==
    { <<"A","c","m","e",";","F","i","n","a","l","i","z","a","d","o"," ","O","K",";","8","0","%">>,
      <<";","P","a","r","a","l","i","z","a","d","o",";","1","0">>,
      <<>>,
      <<" ",";",";"," ">>,
      <<"c","l","i","e","n","t","e"," ","b",";","e","m"," ","a","n","d","a","m","e","n","t","o",";","4","5",",","5">>,
      <<"B","e","t","a">> }

LF == <<"\n">>
CRLF == <<"\r", "\n">>

\* the lines joined by the line break eol (no trailing line break)
RECURSIVE JoinLines(_, _)
JoinLines(ls, eol) ==
    IF ls = <<>> THEN <<>>
    ELSE IF Len(ls) = 1 THEN ls[1]
    ELSE ls[1] \o eol \o JoinLines(Tail(ls), eol)

PartLines(parts) == parts.junk \o parts.header \o parts.data

AssembleCsv(parts) ==
    (IF parts.bom THEN <<"BOM">> ELSE <<>>) \o JoinLines(PartLines(parts), parts.eol)

ParseInit ==
    /\ \E b \in BOOLEAN, e \in {LF, CRLF}, j \in StringsUpTo(JunkPool, MaxLines),
          h \in {<<>>} \cup {<<x>> : x \in HeaderPool} :
          \E d \in StringsUpTo(DataPool, MaxLines - Len(j)) :
             csvParts = [bom |-> b, eol |-> e, junk |-> j, header |-> h, data |-> d]
    /\ text = AssembleCsv(csvParts)
    /\ rows = <<>>
    /\ alerts = <<>>
    /\ parsePc = "call"

CallParseTeleinfoCsv ==
    /\ parsePc = "call"
    /\ \E r \in {parseTeleinfoCsv(text)} :
          rows' = r.rows /\ alerts' = r.alerts
    /\ parsePc' = "done"
    /\ UNCHANGED <<csvParts, text>>

ParseIdle ==
    /\ csvParts = <<>>
    /\ text = <<>>
    /\ rows = <<>>
    /\ alerts = <<>>
    /\ parsePc = "idle"

-----------------------------------------------------------------------------
(* parseTeleinfoCsv applied to a header line and data lines chosen for the *)
(* resolution of the columns: names in any case and with blanks around     *)
(* them, names that occur twice, names that are missing or only contained  *)
(* in a longer token, and data lines shorter than the header.              *)

ColumnHeaderPool ==
    { <<"C","L","I","E","N","T","E",";","T","I","P","O"," ","D","E"," ","P","R","O","J","E","T","O",";","T","I","P","O"," ","D","E"," ","P","R","O","D","U","T","O",";","B","U","s",";","C",".","C","u","s","t","o",";","S","T","A","T","U","S",";","%">>,
      <<" ","c","l","i","e","n","t","e"," ",";","\t","S","t","a","t","u","s"," ",";"," ","%"," ",";","b","u","s",";"," ","t","i","p","o"," ","d","e"," ","p","r","o","d","u","t","o">>,
      <<"s","t","a","t","u","s",";","C","l","i","e","n","t","e",";","S","T","A","T","U","S",";","C","L","I","E","N","T","E",";","%",";","%">>,
      <<"C","l","i","e","n","t","e","s",";","C",".","C","U","S","T","O",";","S","T","A","T","U","S"," ","X",";","B","U","s">>,
      <<"%",";","b","u","s",";","C","L","I","E","N","T","E">> }

ColumnDataPool ==
    { <<"A","c","m","e",";","I","n","f","r","a",";","R","e","d","e","s",";","T","I",";","C","C","1",";"," ","e","m"," ","a","n","d","a","m","e","n","t","o"," ",";","4","5",",","5","%">>,
      <<"B","e","t","a">>,
      <<" ","G","a","m","a"," ",";"," ","n","A","o"," ","I","n","i","c","i","a","d","o">>,
      <<"F","i","n","a","l","i","z","a","d","o",";","D","e","l","t","a",";","p","a","r","a","l","i","z","a","d","o",";","O","m","e","g","a",";","1","0",";","2","0">>,
      <<";",";",";",";","C","C","9",";",";">> }

ColumnsInit ==
    /\ \E h \in ColumnHeaderPool, d \in StringsUpTo(ColumnDataPool, MaxLines) :
          csvParts = [bom |-> FALSE, eol |-> LF, junk |-> <<>>, header |-> <<h>>, data |-> d]
    /\ text = AssembleCsv(csvParts)
    /\ rows = <<>>
    /\ alerts = <<>>
    /\ parsePc = "call"

-----------------------------------------------------------------------------
(* The classifiers applied to bounded inputs: a status text is a canonical *)
(* label or a near miss of one, in some case, with or without text around  *)
(* it; a business-unit text is one or two unit names.                      *)

StatusLead == { <<>>, <<" ">> }

StatusWords ==
    { <<"F","I","N","A","L","I","Z","A","D","O">>, <<"E","M"," ","A","N","D","A","M","E","N","T","O">>, <<"P","A","R","A","L","I","Z","A","D","O">>, <<"N","A~","O"," ","I","N","I","C","I","A","D","O">>,
      <<"F","i","n","a","l","i","z","a","d","o">>, <<"e","m"," ","a","n","d","a","m","e","n","t","o">>, <<"P","a","r","a","l","i","z","a","d","o">>, <<"n","a~","o"," ","i","n","i","c","i","a","d","o">>,
      <<"F","I","N","A","L","I","Z","A","D">>, <<"E","M"," "," ","A","N","D","A","M","E","N","T","O">>, <<"P","A","R","A","L","I","S","A","D","O">>, <<"N","A","O"," ","I","N","I","C","I","A","D","O">>,
      <<"C","A","N","C","E","L","A","D","O">>, <<"A"," ","F","I","N","A","L","I","Z","A","D","O">>, <<>> }

StatusTrail == { <<>>, <<" ","-"," ","A","G","U","A","R","D","A","N","D","O"," ","C","L","I","E","N","T","E">>, <<"S">> }

StatusInputs ==
    {lead \o word \o trail : lead \in StatusLead, word \in StatusWords, trail \in StatusTrail}

BuWords ==
    { <<"I","N","F","R","A","E","S","T","R","U","T","U","R","A">>, <<"S","e","g","u","r","a","n","c,","a">>, <<"t","i">>, <<"A","U","T","O","M","A","C,","A~","O">>, <<"A","u","t","o","m","a","c","a","o">>,
      <<"M","a","r","k","e","t","i","n","g">>, <<"R","H">>, <<"T">>, <<"I">>, <<>> }

BuSeparators == { <<>>, <<"/">> }

BuInputs ==
    {a \o sep \o b : a \in BuWords, sep \in BuSeparators, b \in BuWords}

ClassifyInit ==
    /\ statusArg \in StatusInputs
    /\ buArg \in BuInputs
    /\ classified = <<>>
    /\ classifyPc = "call"

\* one call of each classifier on the arguments
CallClassifiers ==
    /\ classifyPc = "call"
    /\ classified' =
          [ pill              |-> getStatusClass(statusArg),
            chart             |-> getStatusChartColor(statusArg),
            presentationChart |-> PresentationGetStatusChartColor(statusArg),
            bu                |-> getBuChartColor(buArg),
            presentationBu    |-> PresentationGetBuChartColor(buArg) ]
    /\ classifyPc' = "done"
    /\ UNCHANGED <<statusArg, buArg>>

ClassifyIdle ==
    /\ statusArg = <<>>
    /\ buArg = <<>>
    /\ classified = <<>>
    /\ classifyPc = "idle"

-----------------------------------------------------------------------------
(* The application: App holds projects and fileName, the dashboard holds   *)
(* the three filters; a chosen file is read asynchronously and its records *)
(* replace the collection when the read completes.                         *)

MaxPendingReads == 2

Csv(b, e, j, h, d) == [bom |-> b, eol |-> e, junk |-> j, header |-> h, data |-> d]

\* the files the user can choose from: two with records, two whose data
\* lines are all skipped, and one for each parse-fatal condition
FilePool ==
    { [ name |-> <<"a",".","c","s","v">>,
        parts |-> Csv(FALSE, LF, <<>>, <<<<"C","L","I","E","N","T","E",";","B","U","s",";","C",".","C","u","s","t","o",";","S","T","A","T","U","S",";","%">>>>,
                      <<<<"A","c","m","e",";","T","I",";","C","C","1",";","F","i","n","a","l","i","z","a","d","o"," ","O","K",";","8","0","%">>, <<"B","e","t","a",";",";",";","E","m"," ","a","n","d","a","m","e","n","t","o",";","4","5",",","5">>>>) ],
      [ name |-> <<"b",".","c","s","v">>,
        parts |-> Csv(TRUE, CRLF, <<<<"R","e","l"," ","1">>>>, <<<<" ","c","l","i","e","n","t","e"," ",";","c",".","c","u","s","t","o",";"," ","S","t","a","t","u","s"," ">>>>,
                      <<<<"G","a","m","a",";","C","C","2",";","P","a","r","a","l","i","z","a","d","o"," ","-"," ","a","g","u","a","r","d","a","n","d","o"," ","c","l","i","e","n","t","e">>, <<";",";","F","i","n","a","l","i","z","a","d","o">>>>) ],
      [ name |-> <<"s","k","i","p","1",".","c","s","v">>,
        parts |-> Csv(TRUE, CRLF, <<<<"R","e","l"," ","1">>>>, <<<<"C","L","I","E","N","T","E",";","S","T","A","T","U","S",";","%">>>>,
                      <<<<";","P","a","r","a","l","i","z","a","d","o",";","1","0">>, <<" ",";"," ","F","i","n","a","l","i","z","a","d","o",";">>>>) ],
      [ name |-> <<"s","k","i","p","2",".","c","s","v">>,
        parts |-> Csv(FALSE, LF, <<>>, <<<<"C","l","i","e","n","t","e","s",";","C",".","C","U","S","T","O",";","%">>>>,
                      <<<<"A","c","m","e",";",";","8","0","%">>>>) ],
      [ name |-> <<"n","o","h","e","a","d",".","c","s","v">>,
        parts |-> Csv(FALSE, LF, <<<<"R","e","l"," ","1">>, <<"C",".","C","u","s","t","o",";","%">>>>, <<>>, <<>>) ],
      [ name |-> <<"e","m","p","t","y",".","c","s","v">>,
        parts |-> Csv(FALSE, LF, <<>>, <<<<"C","L","I","E","N","T","E",";","S","T","A","T","U","S",";","%">>>>, <<<<" ",";",";"," ">>>>) ],
      [ name |-> <<"n","o","i","d",".","c","s","v">>,
        parts |-> Csv(FALSE, LF, <<>>, <<<<"N","O","M","E"," ","D","O"," ","C","L","I","E","N","T","E",";","S","T","A","T","U","S">>>>,
                      <<<<"A","c","m","e",";","F","i","n","a","l","i","z","a","d","o"," ","O","K">>>>) ] }

FileNamed(n) == CHOOSE f \in FilePool : f.name = n

\* what parseTeleinfoCsv returns for the text of each file
ParsedFiles ==
    [n \in {f.name : f \in FilePool} |-> parseTeleinfoCsv(AssembleCsv(FileNamed(n).parts))]

\* App's useState initial values and the dashboard's
AppInit ==
    /\ projects = <<>>
    /\ fileName = <<>>
    /\ statusFilter = <<>>
    /\ buFilter = <<>>
    /\ clientFilter = <<>>
    /\ reads = <<>>
    /\ lastAlerts = <<>>
    /\ inputFile = <<>>

\* handleFileChange: the user chose file f; a FileReader starts reading it
handleFileChange(f) ==
    /\ Len(reads) < MaxPendingReads
    /\ reads' = Append(reads, f.name)
    /\ inputFile' = f.name
    /\ UNCHANGED <<projects, fileName, statusFilter, buFilter, clientFilter, lastAlerts>>

\* handleDataLoaded adding the records to those already loaded
handleDataLoadedAppending(data, name) ==
    /\ projects' = projects \o data
    /\ fileName' = name

\* App's handleDataLoaded
handleDataLoaded(data, name) ==
    /\ projects' = data
    /\ fileName' = name

\* reader.onload calling onDataLoaded only when some record was parsed
ReaderOnloadUnlessEmpty(i) ==
    /\ i \in 1..Len(reads)
    /\ \E parsedData \in {ParsedFiles[reads[i]]} :
          /\ lastAlerts' = parsedData.alerts
          /\ IF parsedData.rows # <<>>
             THEN handleDataLoaded(parsedData.rows, reads[i])
             ELSE UNCHANGED <<projects, fileName>>
    /\ reads' = SubSeq(reads, 1, i - 1) \o SubSeq(reads, i + 1, Len(reads))
    /\ UNCHANGED <<statusFilter, buFilter, clientFilter, inputFile>>

\* reader.onload setting the three filters back to "Todos"
ReaderOnloadResettingFilters(i) ==
    /\ i \in 1..Len(reads)
    /\ \E parsedData \in {ParsedFiles[reads[i]]} :
          /\ lastAlerts' = parsedData.alerts
          /\ handleDataLoaded(parsedData.rows, reads[i])
    /\ reads' = SubSeq(reads, 1, i - 1) \o SubSeq(reads, i + 1, Len(reads))
    /\ statusFilter' = <<>>
    /\ buFilter' = <<>>
    /\ clientFilter' = <<>>
    /\ UNCHANGED inputFile

\* reader.onload of the i-th pending read: the text is parsed and the
\* result handed to onDataLoaded, whatever it is
ReaderOnload(i) ==
    /\ i \in 1..Len(reads)
    /\ \E parsedData \in {ParsedFiles[reads[i]]} :
          /\ lastAlerts' = parsedData.alerts
          /\ handleDataLoaded(parsedData.rows, reads[i])
    /\ reads' = SubSeq(reads, 1, i - 1) \o SubSeq(reads, i + 1, Len(reads))
    /\ UNCHANGED <<statusFilter, buFilter, clientFilter, inputFile>>

\* the onChange of the three filter drop-downs, which the dashboard proper
\* renders: the filter becomes the value of the option chosen
setStatusFilter(v) ==
    /\ DashboardScreen = "dashboard"
    /\ statusFilter' = v
    /\ UNCHANGED <<projects, fileName, buFilter, clientFilter, reads, lastAlerts, inputFile>>

setBuFilter(v) ==
    /\ DashboardScreen = "dashboard"
    /\ buFilter' = v
    /\ UNCHANGED <<projects, fileName, statusFilter, clientFilter, reads, lastAlerts, inputFile>>

setClientFilter(v) ==
    /\ DashboardScreen = "dashboard"
    /\ clientFilter' = v
    /\ UNCHANGED <<projects, fileName, statusFilter, buFilter, reads, lastAlerts, inputFile>>

SelectFile ==
    /\ \E f \in FilePool : handleFileChange(f)
    /\ UNCHANGED <<percVars, parseVars, classifyVars, detailVars>>
ReadCompletes ==
    /\ \E i \in 1..Len(reads) : ReaderOnload(i)
    /\ UNCHANGED <<percVars, parseVars, classifyVars, detailVars>>
\* a choice in a drop-down: "Todos" (the empty value) or one of the offered
\* values
ChangeStatusFilter ==
    /\ \E v \in {<<>>} \cup ElementsOf(uniqueFilters.statuses) : setStatusFilter(v)
    /\ UNCHANGED <<percVars, parseVars, classifyVars, detailVars>>
ChangeBuFilter ==
    /\ \E v \in {<<>>} \cup ElementsOf(uniqueFilters.bus) : setBuFilter(v)
    /\ UNCHANGED <<percVars, parseVars, classifyVars, detailVars>>
ChangeClientFilter ==
    /\ \E v \in {<<>>} \cup ElementsOf(uniqueFilters.clients) : setClientFilter(v)
    /\ UNCHANGED <<percVars, parseVars, classifyVars, detailVars>>

AppIdle ==
    /\ projects = <<>>
    /\ fileName = <<>>
    /\ statusFilter = <<>>
    /\ buFilter = <<>>
    /\ clientFilter = <<>>
    /\ reads = <<>>
    /\ lastAlerts = <<>>
    /\ inputFile = <<>>

-----------------------------------------------------------------------------
(* The dashboard holding any bounded collection of parsed records, as left *)
(* by some upload, with the filters at "Todos".                            *)

MaxRecords == 3

Project(cliente, bus, cCusto, st, perc) ==
    [ CLIENTE         |-> cliente,
      TIPO_DE_PROJETO |-> <<>>,
      TIPO_DE_PRODUTO |-> <<>>,
      BUs             |-> bus,
      C_Custo         |-> cCusto,
      STATUS          |-> st,
      perc            |-> perc ]

\* records as the normalizer leaves them: trimmed cells, an upper-case
\* trimmed STATUS, a CLIENTE or a C.Custo, a number or null as percentage
RecordPool ==
    { Project(<<"A","c","m","e">>, <<"T","I">>, <<>>, <<"F","I","N","A","L","I","Z","A","D","O"," ","O","K">>, Rat(100, 1)),
      Project(<<"A","c","m","e">>, <<>>, <<>>, <<"E","M"," ","A","N","D","A","M","E","N","T","O">>, Rat(50, 1)),
      Project(<<"B","e","t","a">>, <<"T","I">>, <<>>, <<"P","A","R","A","L","I","Z","A","D","O"," ","-"," ","A","G","U","A","R","D","A","N","D","O"," ","C","L","I","E","N","T","E">>, Null),
      Project(<<"B","e","t","a">>, <<"I","N","F","R","A">>, <<>>, <<"N","A~","O"," ","I","N","I","C","I","A","D","O">>, Rat(0, 1)),
      Project(<<>>, <<>>, <<"C","C","1">>, <<>>, Rat(91, 2)),
      Project(<<"A","c","m","e">>, <<"T","I">>, <<>>, <<"C","A","N","C","E","L","A","D","O">>, Rat(150, 1)),
      Project(<<"G","a","m","a">>, <<"I","N","F","R","A">>, <<>>, <<"F","I","N","A","L","I","Z","A","D","O">>, Null),
      Project(<<"G","a","m","a">>, <<"c","o","n","s","t","r","u","c","t","o","r">>, <<>>, <<"A"," ","F","I","N","A","L","I","Z","A","D","O">>, Rat(-5, 2)) }

AggregateInit ==
    /\ projects \in StringsUpTo(RecordPool, MaxRecords)
    /\ fileName = <<"x",".","c","s","v">>
    /\ statusFilter = <<>>
    /\ buFilter = <<>>
    /\ clientFilter = <<>>
    /\ reads = <<>>
    /\ lastAlerts = <<>>
    /\ inputFile = <<>>

-----------------------------------------------------------------------------
(* The slide of a detailed project: dates and the timeline.                *)
(* An instant is a whole number of hours since 1970-01-01T00:00Z.          *)

\* the days from 1970-01-01 to the civil date y-m-d
DayOfYearFromMarch(m, d) ==
    (153 * (IF m > 2 THEN m - 3 ELSE m + 9) + 2) \div 5 + d - 1
DayOfEra(yoe, m, d) ==
    yoe * 365 + yoe \div 4 - yoe \div 100 + DayOfYearFromMarch(m, d)
DaysFromMarchYear(y, m, d) ==
    (y \div 400) * 146097 + DayOfEra(y % 400, m, d) - 719468
DaysFromCivil(y, m, d) ==
    DaysFromMarchYear(IF m <= 2 THEN y - 1 ELSE y, m, d)

\* the civil day a date input's value YYYY-MM-DD names
CivilDayOf(date) ==
    DaysFromCivil(DigitsValue(SubSeq(date, 1, 4)),
                  DigitsValue(SubSeq(date, 6, 7)),
                  DigitsValue(SubSeq(date, 9, 10)))

TimeZones == {"UTC", "America/Sao_Paulo", "America/New_York"}

\* the hours local time is ahead of UTC at the midnight that begins the
\* day (2024: New York moves its clocks at 02:00 of March 10 and
\* November 3)
UtcOffsetAtMidnight(zone, day) ==
    CASE zone = "UTC" -> 0
      [] zone = "America/Sao_Paulo" -> -3
      [] zone = "America/New_York" ->
            IF day > DaysFromCivil(2024, 3, 10) /\ day <= DaysFromCivil(2024, 11, 3)
            THEN -4 ELSE -5

\* the instant of the local midnight that begins the day
LocalMidnight(zone, day) == 24 * day - UtcOffsetAtMidnight(zone, day)

\* new Date(date + 'T00:00:00').getTime(), null for the empty text
DateOrNull(date, zone) ==
    IF date = <<>> THEN Null
    ELSE [kind |-> "date", time |-> LocalMidnight(zone, CivilDayOf(date))]

OneDay == 24

\* Math.floor(x / k) and Math.ceil(x / k) of whole numbers, k > 0
FloorDiv(x, k) == x \div k
CeilDiv(x, k) == -((-x) \div k)

\* a < b for two numbers that are not NaN
NumLess(a, b) ==
    IF a.kind = "Infinity" THEN a.sign < 0 /\ ~(b.kind = "Infinity" /\ b.sign < 0)
    ELSE IF b.kind = "Infinity" THEN b.sign > 0
    ELSE a.n * b.d < b.n * a.d

\* Math.min and Math.max of two numbers
MathMin(a, b) ==
    IF a.kind = "NaN" \/ b.kind = "NaN" THEN NaN
    ELSE IF NumLess(b, a) THEN b ELSE a
MathMax(a, b) ==
    IF a.kind = "NaN" \/ b.kind = "NaN" THEN NaN
    ELSE IF NumLess(a, b) THEN b ELSE a

\* the progress without Math.max and Math.min
TimelineProgressUnclamped(startTime, endTime, todayTime) ==
    IF endTime - startTime > 0
    THEN Rat((todayTime - startTime) * 100, endTime - startTime)
    ELSE IF todayTime >= endTime THEN Rat(100, 1) ELSE Rat(0, 1)

\* const progress = totalDuration > 0 ? ... : (today >= endDate ? 100 : 0)
TimelineProgress(startTime, endTime, todayTime) ==
    IF endTime - startTime > 0
    THEN MathMax(Rat(0, 1),
                 MathMin(Rat(100, 1),
                         Rat((todayTime - startTime) * 100, endTime - startTime)))
    ELSE IF todayTime >= endTime THEN Rat(100, 1) ELSE Rat(0, 1)

\* `${n} dia${n > 1 ? 's' : ''}`
Dias(n) == NatToString(n) \o <<" ","d","i","a">> \o (IF n > 1 THEN <<"s">> ELSE <<>>)

TextFinished(remainingDays) ==
    IF Abs(remainingDays) = 0 THEN <<"F","i","n","a","l","i","z","a"," ","h","o","j","e">>
    ELSE <<"F","i","n","a","l","i","z","a","d","o"," ","h","a'"," ">> \o Dias(Abs(remainingDays))
TextStarts(daysToStart) == <<"I","n","i","c","i","a"," ","e","m"," ">> \o Dias(daysToStart)
TextRemaining(remainingDays) ==
    IF remainingDays = 0 THEN <<"F","i","n","a","l","i","z","a"," ","h","o","j","e">>
    ELSE <<"F","a","l","t","a","m"," ">> \o Dias(remainingDays)

\* the days rounded down in place of up
TimelineTextRoundedDown(startTime, endTime, todayTime) ==
    IF todayTime > endTime
    THEN TextFinished(FloorDiv(endTime - todayTime, OneDay))
    ELSE IF todayTime < startTime
    THEN TextStarts(FloorDiv(startTime - todayTime, OneDay))
    ELSE TextRemaining(FloorDiv(endTime - todayTime, OneDay))

\* the if / else-if / else that chooses the text
TimelineText(startTime, endTime, todayTime) ==
    IF todayTime > endTime
    THEN TextFinished(CeilDiv(endTime - todayTime, OneDay))
    ELSE IF todayTime < startTime
    THEN TextStarts(CeilDiv(startTime - todayTime, OneDay))
    ELSE TextRemaining(CeilDiv(endTime - todayTime, OneDay))

DatesUndefined == [progress |-> Rat(0, 1), text |-> <<"D","a","t","a","s"," ","n","a~","o"," ","d","e","f","i","n","i","d","a","s">>]

TimelineInfoBetween(startDate, endDate, todayTime) ==
    IF startDate # Null /\ endDate # Null /\ startDate.time <= endDate.time
    THEN [progress |-> TimelineProgress(startDate.time, endDate.time, todayTime),
          text     |-> TimelineText(startDate.time, endDate.time, todayTime)]
    ELSE DatesUndefined

\* the timelineInfo of a project with these dates, rendered on the day today
TimelineInfoOf(start, end, today, zone) ==
    TimelineInfoBetween(DateOrNull(start, zone), DateOrNull(end, zone),
                        LocalMidnight(zone, today))

\* the dates the slide is rendered with: around the turn of a year, the
\* example of the specification, and the days around the two clock changes
DateTexts ==
    { <<"2","0","2","3","-","1","2","-","3","1">>, <<"2","0","2","4","-","0","1","-","0","1">>, <<"2","0","2","4","-","0","1","-","0","2">>, <<"2","0","2","4","-","0","1","-","0","6">>, <<"2","0","2","4","-","0","1","-","1","1">>,
      <<"2","0","2","4","-","0","3","-","0","9">>, <<"2","0","2","4","-","0","3","-","1","0">>, <<"2","0","2","4","-","0","3","-","1","1">>, <<"2","0","2","4","-","0","3","-","1","2">>,
      <<"2","0","2","4","-","1","1","-","0","3">>, <<"2","0","2","4","-","1","1","-","0","4">> }

TimelineInit ==
    /\ projStart \in {<<>>} \cup DateTexts
    /\ projEnd \in {<<>>} \cup DateTexts
    /\ todayDay \in {CivilDayOf(d) : d \in DateTexts}
    /\ timeZone \in TimeZones
    /\ timelineInfo = Null
    /\ timelinePc = "render"

RenderTimeline ==
    /\ timelinePc = "render"
    /\ timelineInfo' = TimelineInfoOf(projStart, projEnd, todayDay, timeZone)
    /\ timelinePc' = "done"
    /\ UNCHANGED <<projStart, projEnd, todayDay, timeZone>>

TimelineIdle ==
    /\ projStart = <<>>
    /\ projEnd = <<>>
    /\ todayDay = 0
    /\ timeZone = "UTC"
    /\ timelineInfo = Null
    /\ timelinePc = "idle"

-----------------------------------------------------------------------------
(* The slide of a detailed project: the bar of the used hours.             *)

ColorNormal == <<"#","f","9","7","3","1","6">>
ColorExceeded == <<"#","e","f","4","4","4","4">>
ColorRisk == <<"#","e","a","b","3","0","8">>

\* a / b for numbers, b # 0
NumQuotient(a, b) == Rat(a.n * b.d, a.d * b.n)

\* the fill with >= in place of > for the exceeded hours
UsedBarColorFromSold(sold, used) ==
    IF NumLess(Rat(0, 1), sold)
    THEN IF ~NumLess(used, sold) THEN ColorExceeded
         ELSE IF ~NumLess(NumQuotient(used, sold), Rat(8, 10)) THEN ColorRisk
         ELSE ColorNormal
    ELSE ColorNormal

\* the fill of the cell of the "Utilizadas" bar
UsedBarColor(sold, used) ==
    IF NumLess(Rat(0, 1), sold)
    THEN IF NumLess(sold, used) THEN ColorExceeded
         ELSE IF ~NumLess(NumQuotient(used, sold), Rat(8, 10)) THEN ColorRisk
         ELSE ColorNormal
    ELSE ColorNormal

\* hours are whole numbers up to MaxHours
MaxHours == 10

HoursInit ==
    /\ soldHours \in {Rat(h, 1) : h \in 0..MaxHours}
    /\ usedHours \in {Rat(h, 1) : h \in 0..MaxHours}
    /\ barColor = Null
    /\ hoursPc = "render"

RenderHoursBar ==
    /\ hoursPc = "render"
    /\ barColor' = UsedBarColor(soldHours, usedHours)
    /\ hoursPc' = "done"
    /\ UNCHANGED <<soldHours, usedHours>>

HoursIdle ==
    /\ soldHours = Rat(0, 1)
    /\ usedHours = Rat(0, 1)
    /\ barColor = Null
    /\ hoursPc = "idle"

-----------------------------------------------------------------------------
(* The monitoring editor of the detailed projects.                         *)

\* a valid floating-point number of HTML: [-] (digits [. digits] | . digits)
\* [(e|E) [+-] digits]
ValidFloatExponent(s, p2) ==
    \/ p2 = Len(s) + 1
    \/ /\ p2 <= Len(s)
       /\ s[p2] \in {"e", "E"}
       /\ \E p3 \in {IF p2 + 1 <= Len(s) /\ s[p2 + 1] \in {"+", "-"} THEN p2 + 2 ELSE p2 + 1} :
             DigitRun(s, p3) > 0 /\ p3 + DigitRun(s, p3) = Len(s) + 1
ValidFloatFraction(s, p1, n1) ==
    IF p1 + n1 <= Len(s) /\ s[p1 + n1] = "."
    THEN DigitRun(s, p1 + n1 + 1) > 0
            /\ ValidFloatExponent(s, p1 + n1 + 1 + DigitRun(s, p1 + n1 + 1))
    ELSE n1 > 0 /\ ValidFloatExponent(s, p1 + n1)
ValidFloatFrom(s, p1) == ValidFloatFraction(s, p1, DigitRun(s, p1))
IsValidFloatingPointNumber(s) ==
    ValidFloatFrom(s, IF s # <<>> /\ s[1] = "-" THEN 2 ELSE 1)

\* e.target.value of <input type="number"> after the user typed: text that
\* is not a valid floating-point number is sanitized to the empty string
NumberInputValue(typed) ==
    IF IsValidFloatingPointNumber(typed) THEN typed ELSE <<>>

\* the text is a StrDecimalLiteral: [+-] (Infinity | digits [. [digits]] |
\* . digits) [(e|E) [+-] digits], nothing after it
DecimalLiteralExponent(s, p2) ==
    \/ p2 = Len(s) + 1
    \/ /\ p2 <= Len(s)
       /\ s[p2] \in {"e", "E"}
       /\ \E p3 \in {IF p2 + 1 <= Len(s) /\ s[p2 + 1] \in {"+", "-"} THEN p2 + 2 ELSE p2 + 1} :
             DigitRun(s, p3) > 0 /\ p3 + DigitRun(s, p3) = Len(s) + 1
DecimalLiteralFraction(s, p1, n1) ==
    IF p1 + n1 <= Len(s) /\ s[p1 + n1] = "."
    THEN n1 + DigitRun(s, p1 + n1 + 1) > 0
            /\ DecimalLiteralExponent(s, p1 + n1 + 1 + DigitRun(s, p1 + n1 + 1))
    ELSE n1 > 0 /\ DecimalLiteralExponent(s, p1 + n1)
DecimalLiteralFrom(s, p1) ==
    \/ SubSeq(s, p1, Len(s)) = InfinityWord
    \/ DecimalLiteralFraction(s, p1, DigitRun(s, p1))
IsStrDecimalLiteral(s) ==
    DecimalLiteralFrom(s, IF s # <<>> /\ s[1] \in {"+", "-"} THEN 2 ELSE 1)

\* Number(value) of a string: 0 for white space only, the value of the
\* decimal literal the trimmed text is, NaN otherwise (the literals of the
\* other radixes, 0x.. 0o.. 0b.., are not modelled)
NumberOf(v) ==
    IF Trim(v) = <<>> THEN Rat(0, 1)
    ELSE IF IsStrDecimalLiteral(Trim(v)) THEN ParseFloat(Trim(v))
    ELSE NaN

-----------------------------------------------------------------------------
(* JSON.stringify and JSON.parse, and the documents of window.localStorage.*)
(* A document is the tree of the JSON text: the literals (numerals, quoted *)
(* strings, null) are the characters written, the brackets, commas and     *)
(* colons are the shape of the tree.                                       *)

JsonNull == [json |-> "null"]
JsonNumber(numeral) == [json |-> "number", text |-> numeral]
JsonString(quoted) == [json |-> "string", text |-> quoted]
JsonArray(items) == [json |-> "array", items |-> items]
JsonObject(members) == [json |-> "object", members |-> members]

\* the digits after the point of r / d for 0 <= r < d, at most k of them
RECURSIVE FractionDigits(_, _, _)
FractionDigits(r, d, k) ==
    IF r = 0 \/ k = 0 THEN <<>>
    ELSE <<Digits[((10 * r) \div d) + 1]>> \o FractionDigits((10 * r) % d, d, k - 1)

\* Number::toString of a finite number written without an exponent (from
\* 10^-6 up to 10^21) and with at most 17 digits after the point
NumberToString(x) ==
    (IF x.n < 0 THEN <<"-">> ELSE <<>>)
        \o NatToString(Abs(x.n) \div x.d)
        \o (IF Abs(x.n) % x.d = 0 THEN <<>>
            ELSE <<".">> \o FractionDigits(Abs(x.n) % x.d, x.d, 17))

\* SerializeJSONProperty of a number: null for NaN and the infinities
StringifyNumber(x) ==
    IF x.kind = "number" THEN JsonNumber(NumberToString(x)) ELSE JsonNull

\* QuoteJSONString: the quotation mark, the backslash and the control
\* characters are escaped
EscapeOf(c) ==
    IF c = "\"" THEN <<"\\", "\"">>
    ELSE IF c = "\\" THEN <<"\\", "\\">>
    ELSE IF c = "\n" THEN <<"\\", "n">>
    ELSE IF c = "\r" THEN <<"\\", "r">>
    ELSE IF c = "\t" THEN <<"\\", "t">>
    ELSE <<c>>
RECURSIVE EscapeAll(_)
EscapeAll(s) == IF s = <<>> THEN <<>> ELSE EscapeOf(s[1]) \o EscapeAll(Tail(s))
QuoteJSONString(s) == <<"\"">> \o EscapeAll(s) \o <<"\"">>
StringifyString(s) == JsonString(QuoteJSONString(s))

\* the value of a JSON string literal: the text between the quotation
\* marks with the escapes undone
UnescapeOf(c) ==
    IF c = "n" THEN "\n" ELSE IF c = "r" THEN "\r" ELSE IF c = "t" THEN "\t" ELSE c
RECURSIVE UnescapeAll(_)
UnescapeAll(s) ==
    IF s = <<>> THEN <<>>
    ELSE IF s[1] = "\\" /\ Len(s) > 1
    THEN <<UnescapeOf(s[2])>> \o UnescapeAll(SubSeq(s, 3, Len(s)))
    ELSE <<s[1]>> \o UnescapeAll(Tail(s))
ParseString(doc) == UnescapeAll(SubSeq(doc.text, 2, Len(doc.text) - 1))

\* the value of a JSON number literal or of null
ParseNumber(doc) == IF doc.json = "number" THEN ParseFloat(doc.text) ELSE Null

\* the value of the member of an object with the key
Member(doc, key) ==
    doc.members[CHOOSE i \in 1..Len(doc.members) : doc.members[i][1] = key][2]

\* JSON.stringify of the records of types.ts: the members in the order the
\* object got them
StringifyStep(st) ==
    JsonObject(<< <<"name", StringifyString(st.name)>>, <<"perc", StringifyNumber(st.perc)>> >>)
StringifyBuHours(h) ==
    JsonObject(<< <<"infra", StringifyNumber(h.infra)>>, <<"sse", StringifyNumber(h.sse)>>,
                  <<"ti", StringifyNumber(h.ti)>>, <<"aut", StringifyNumber(h.aut)>> >>)
StringifyDetailedProject(p) ==
    JsonObject(<< <<"name", StringifyString(p.name)>>,
                  <<"start", StringifyString(p.start)>>,
                  <<"end", StringifyString(p.end)>>,
                  <<"steps", JsonArray([i \in 1..Len(p.steps) |-> StringifyStep(p.steps[i])])>>,
                  <<"soldHours", StringifyBuHours(p.soldHours)>>,
                  <<"usedHours", StringifyBuHours(p.usedHours)>>,
                  <<"id", StringifyString(p.id)>> >>)
StringifyKeyFact(f) ==
    JsonObject(<< <<"id", StringifyString(f.id)>>, <<"text", StringifyString(f.text)>>,
                  <<"logoUrl", StringifyString(f.logoUrl)>> >>)
StringifyNextStep(s) ==
    JsonObject(<< <<"id", StringifyString(s.id)>>, <<"project", StringifyString(s.project)>>,
                  <<"description", StringifyString(s.description)>> >>)

\* JSON.parse of the documents above
ParseStep(doc) ==
    [name |-> ParseString(Member(doc, "name")), perc |-> ParseNumber(Member(doc, "perc"))]
ParseBuHours(doc) ==
    [infra |-> ParseNumber(Member(doc, "infra")), sse |-> ParseNumber(Member(doc, "sse")),
     ti |-> ParseNumber(Member(doc, "ti")), aut |-> ParseNumber(Member(doc, "aut"))]
ParseDetailedProject(doc) ==
    [ id |-> ParseString(Member(doc, "id")),
      name |-> ParseString(Member(doc, "name")),
      start |-> ParseString(Member(doc, "start")),
      end |-> ParseString(Member(doc, "end")),
      steps |-> [i \in 1..Len(Member(doc, "steps").items) |->
                    ParseStep(Member(doc, "steps").items[i])],
      soldHours |-> ParseBuHours(Member(doc, "soldHours")),
      usedHours |-> ParseBuHours(Member(doc, "usedHours")) ]
ParseKeyFact(doc) ==
    [id |-> ParseString(Member(doc, "id")), text |-> ParseString(Member(doc, "text")),
     logoUrl |-> ParseString(Member(doc, "logoUrl"))]
ParseNextStep(doc) ==
    [id |-> ParseString(Member(doc, "id")), project |-> ParseString(Member(doc, "project")),
     description |-> ParseString(Member(doc, "description"))]

\* the keys of the three collections
ProjectsKey == "teleinfo_detailed_projects"
KeyFactsKey == "teleinfo_keyfacts"
NextStepsKey == "teleinfo_nextsteps"
StorageKeys == {ProjectsKey, KeyFactsKey, NextStepsKey}

\* JSON.stringify(valueToStore) of the collection stored under the key
StringifyItem(key, item) ==
    IF key = ProjectsKey THEN StringifyDetailedProject(item)
    ELSE IF key = KeyFactsKey THEN StringifyKeyFact(item)
    ELSE StringifyNextStep(item)
JSONstringify(key, collection) ==
    JsonArray([i \in 1..Len(collection) |-> StringifyItem(key, collection[i])])

\* JSON.parse(item) of the document stored under the key
ParseItem(key, doc) ==
    IF key = ProjectsKey THEN ParseDetailedProject(doc)
    ELSE IF key = KeyFactsKey THEN ParseKeyFact(doc)
    ELSE ParseNextStep(doc)
JSONparse(key, doc) == [i \in 1..Len(doc.items) |-> ParseItem(key, doc.items[i])]

\* window.localStorage with no item
NoItems == [key \in StorageKeys |-> Null]

\* useLocalStorage's initial state: item ? JSON.parse(item) : initialValue,
\* the initial value being []
storedValueOf(storage, key) ==
    IF storage[key] = Null THEN <<>> ELSE JSONparse(key, storage[key])

\* the number of characters of the text of a document
RECURSIVE TextLength(_)
RECURSIVE TextLengthOfAll(_)
TextLength(doc) ==
    IF doc.json = "null" THEN 4
    ELSE IF doc.json \in {"number", "string"} THEN Len(doc.text)
    ELSE IF doc.json = "array"
    THEN 2 + TextLengthOfAll(doc.items) + (IF doc.items = <<>> THEN 0 ELSE Len(doc.items) - 1)
    ELSE 2 + TextLengthOfAll([i \in 1..Len(doc.members) |-> doc.members[i][2]])
           + 3 * Len(doc.members)
           + TextLengthOfAll([i \in 1..Len(doc.members) |->
                                 JsonString(doc.members[i][1])])
           + (IF doc.members = <<>> THEN 0 ELSE Len(doc.members) - 1)
TextLengthOfAll(docs) ==
    IF docs = <<>> THEN 0 ELSE TextLength(docs[1]) + TextLengthOfAll(Tail(docs))

\* the characters of the item of the key, none when there is no item
ItemLength(storage, key) ==
    IF storage[key] = Null THEN 0 ELSE TextLength(storage[key])

\* window.localStorage.setItem(key, JSON.stringify(valueToStore)): throws
\* when the quota is exceeded, which a document longer than the one it
\* replaces does when the storage is full; the catch block only logs the
\* error
setItem(storage, full, key, collection) ==
    IF full /\ TextLength(JSONstringify(key, collection)) > ItemLength(storage, key)
    THEN storage
    ELSE [storage EXCEPT ![key] = JSONstringify(key, collection)]

initialBuHours ==
    [infra |-> Rat(0, 1), sse |-> Rat(0, 1), ti |-> Rat(0, 1), aut |-> Rat(0, 1)]

initialProjectState ==
    [ name      |-> <<>>,
      start     |-> <<>>,
      end       |-> <<>>,
      steps     |-> << [name |-> <<"P","l","a","n","e","j","a","m","e","n","t","o">>, perc |-> Rat(0, 1)],
                       [name |-> <<"E","x","e","c","u","c,","a~","o">>, perc |-> Rat(0, 1)],
                       [name |-> <<"E","n","t","r","e","g","a">>, perc |-> Rat(0, 1)] >>,
      soldHours |-> initialBuHours,
      usedHours |-> initialBuHours ]

NewProjectId == <<"n","e","w">>

\* { ...currentProject, id }
WithId(project, id) ==
    [ id |-> id, name |-> project.name, start |-> project.start, end |-> project.end,
      steps |-> project.steps, soldHours |-> project.soldHours,
      usedHours |-> project.usedHours ]

\* the fields the effect copies into the editor
WithoutId(project) ==
    [ name |-> project.name, start |-> project.start, end |-> project.end,
      steps |-> project.steps, soldHours |-> project.soldHours,
      usedHours |-> project.usedHours ]

\* the editor after the effect on [selectedProjectId, projects] ran:
\* projects.find takes the first project with the id
CurrentAfterEffect(projs, id, current) ==
    IF id = NewProjectId THEN initialProjectState
    ELSE IF \E i \in 1..Len(projs) : projs[i].id = id
    THEN WithoutId(projs[CHOOSE i \in 1..Len(projs) :
                            /\ projs[i].id = id
                            /\ \A j \in 1..(i - 1) : projs[j].id # id])
    ELSE current

\* Math.max(0, Math.min(100, Number(value))) without Math.max
PercValueUnbounded(v) == MathMin(Rat(100, 1), NumberOf(v))

\* Math.max(0, Math.min(100, Number(value)))
PercValue(v) == MathMax(Rat(0, 1), MathMin(Rat(100, 1), NumberOf(v)))

\* Number(value) >= 0 ? Number(value) : 0
HoursValue(v) ==
    IF NumberOf(v) # NaN /\ ~NumLess(NumberOf(v), Rat(0, 1))
    THEN NumberOf(v)
    ELSE Rat(0, 1)

handleInputChange(field, v) ==
    currentProject' = [currentProject EXCEPT ![field] = v]

handleStepChange(index, field, v) ==
    currentProject' =
        IF field = "perc"
        THEN [currentProject EXCEPT !.steps[index].perc = PercValue(v)]
        ELSE [currentProject EXCEPT !.steps[index].name = v]

handleHoursChange(type, bu, v) ==
    currentProject' = [currentProject EXCEPT ![type][bu] = HoursValue(v)]

addStep ==
    currentProject' =
        [currentProject EXCEPT
            !.steps = Append(currentProject.steps, [name |-> <<"N","o","v","a"," ","E","t","a","p","a">>, perc |-> Rat(0, 1)])]

removeStep(index) ==
    currentProject' =
        [currentProject EXCEPT
            !.steps = SubSeq(currentProject.steps, 1, index - 1)
                         \o SubSeq(currentProject.steps, index + 1, Len(currentProject.steps))]

\* projects.map(p => ({...currentProject, id: selectedProjectId}))
ReplaceEvery(projs) ==
    [i \in 1..Len(projs) |-> WithId(currentProject, selectedProjectId)]

\* projects.map(p => p.id === selectedProjectId ? {...currentProject, id} : p)
ReplaceSelected(projs) ==
    [i \in 1..Len(projs) |->
        IF projs[i].id = selectedProjectId
        THEN WithId(currentProject, selectedProjectId)
        ELSE projs[i]]

\* what handleSave stores and selects when the name is not blank; dateNow
\* is what Date.now() returns
SavedProjects(dateNow) ==
    IF selectedProjectId = NewProjectId
    THEN Append(detailedProjects, WithId(currentProject, NatToString(dateNow)))
    ELSE ReplaceSelected(detailedProjects)
SavedSelection(dateNow) ==
    IF selectedProjectId = NewProjectId THEN NatToString(dateNow) ELSE selectedProjectId

\* handleSave without the check of the name
handleSaveUnchecked(dateNow) ==
    /\ detailedProjects' = SavedProjects(dateNow)
    /\ localStorage' = setItem(localStorage, storageFull, ProjectsKey, SavedProjects(dateNow))
    /\ selectedProjectId' = SavedSelection(dateNow)
    /\ currentProject' = CurrentAfterEffect(SavedProjects(dateNow),
                                            SavedSelection(dateNow), currentProject)

\* handleSave, and the effect that follows the change of the projects
handleSave(dateNow) ==
    IF Trim(currentProject.name) = <<>>
    THEN UNCHANGED <<detailedProjects, localStorage, selectedProjectId, currentProject>>
    ELSE /\ detailedProjects' = SavedProjects(dateNow)
         /\ localStorage' = setItem(localStorage, storageFull, ProjectsKey,
                                    SavedProjects(dateNow))
         /\ selectedProjectId' = SavedSelection(dateNow)
         /\ currentProject' = CurrentAfterEffect(SavedProjects(dateNow),
                                                 SavedSelection(dateNow), currentProject)

handleNewProject ==
    /\ selectedProjectId' = NewProjectId
    /\ currentProject' = initialProjectState
    /\ UNCHANGED <<detailedProjects, localStorage>>

\* the select's onChange, and the effect that follows
setSelectedProjectId(id) ==
    /\ selectedProjectId' = id
    /\ currentProject' = CurrentAfterEffect(detailedProjects, id, currentProject)
    /\ UNCHANGED <<detailedProjects, localStorage>>

\* the mean of the percentages of steps (0 for none)
MeanPerc(steps) ==
    IF Len(steps) > 0
    THEN NumDiv(SumOf([i \in 1..Len(steps) |-> steps[i].perc]), Len(steps))
    ELSE Rat(0, 1)

\* MonitoringView's overallProgress: the steps with a blank name are left out
EditorOverallProgress(steps) ==
    MeanPerc(SelectSeq(steps, LAMBDA st : Trim(st.name) # <<>>))

\* the slide's overallProgress
SlideOverallProgress(steps) == MeanPerc(steps)

\* the overallProgress of generateDetailedProjectRiskAnalysis
PromptOverallProgress(steps) == MeanPerc(steps)

\* the text the editor shows
overallProgress == ToFixed1(EditorOverallProgress(currentProject.steps)) \o <<"%">>

\* what the user types
MaxEdits == 2
MaxClock == 2
MaxProjects == 2

TypedNumbers == { <<>>, <<"a","b","c">>, <<"-","5">>, <<"1","5","0">>, <<"4",".","5","e","1">> }
TypedStepNames == { <<>>, <<" ">> }
TypedInputs ==
    { <<"name", <<"A","l","f","a">>>>, <<"name", <<" ">>>>,
      <<"end", <<"2","0","2","4","-","0","1","-","1","1">>>> }

\* what the storage holds when the editor opens: nothing, or a project
\* saved at the instant 0 of an earlier session
StoredProjects ==
    { <<>>,
      << WithId([initialProjectState EXCEPT !.name = <<"B","e","t","a">>], NatToString(0)) >> }

EditorInit ==
    /\ route = "/monitoring"
    /\ storageFull = FALSE
    /\ localStorage \in {setItem(NoItems, FALSE, ProjectsKey, stored) : stored \in StoredProjects \ {<<>>}}
                         \cup {NoItems}
    /\ detailedProjects = storedValueOf(localStorage, ProjectsKey)
    /\ selectedProjectId = NewProjectId
    /\ currentProject = initialProjectState
    /\ now = 1
    /\ edits = 0

\* the editor is MonitoringView, shown on the route /monitoring
EditorFrame ==
    /\ route = "/monitoring"
    /\ UNCHANGED <<route, storageFull>>
    /\ UNCHANGED <<percVars, parseVars, classifyVars, appVars, timelineVars, hoursVars, aiVars,
                   viewVars>>

ChangeInput ==
    /\ edits < MaxEdits
    /\ \E input \in TypedInputs : handleInputChange(input[1], input[2])
    /\ edits' = edits + 1
    /\ UNCHANGED <<detailedProjects, localStorage, selectedProjectId, now>>
    /\ EditorFrame

ChangeStep ==
    /\ edits < MaxEdits
    /\ \E index \in 1..Len(currentProject.steps) :
          \/ \E typed \in TypedNumbers :
                handleStepChange(index, "perc", NumberInputValue(typed))
          \/ \E typed \in TypedStepNames : handleStepChange(index, "name", typed)
    /\ edits' = edits + 1
    /\ UNCHANGED <<detailedProjects, localStorage, selectedProjectId, now>>
    /\ EditorFrame

ChangeHours ==
    /\ edits < MaxEdits
    /\ \E type \in {"soldHours", "usedHours"} :
          \E bu \in {"infra", "sse", "ti", "aut"} :
             \E typed \in TypedNumbers :
                handleHoursChange(type, bu, NumberInputValue(typed))
    /\ edits' = edits + 1
    /\ UNCHANGED <<detailedProjects, localStorage, selectedProjectId, now>>
    /\ EditorFrame

AddStep ==
    /\ edits < MaxEdits
    /\ addStep
    /\ edits' = edits + 1
    /\ UNCHANGED <<detailedProjects, localStorage, selectedProjectId, now>>
    /\ EditorFrame

RemoveStep ==
    /\ edits < MaxEdits
    /\ \E index \in 1..Len(currentProject.steps) : removeStep(index)
    /\ edits' = edits + 1
    /\ UNCHANGED <<detailedProjects, localStorage, selectedProjectId, now>>
    /\ EditorFrame

\* a save that creates a project reads the clock, which never runs backwards
SaveCreates == selectedProjectId = NewProjectId /\ Trim(currentProject.name) # <<>>

Save ==
    /\ SaveCreates => Len(detailedProjects) < MaxProjects
    /\ \E dateNow \in now..MaxClock :
          /\ handleSave(dateNow)
          /\ now' = IF SaveCreates THEN dateNow ELSE now
    /\ UNCHANGED edits
    /\ EditorFrame

NewProject ==
    /\ handleNewProject
    /\ UNCHANGED <<now, edits>>
    /\ EditorFrame

SelectProject ==
    /\ \E id \in {NewProjectId} \cup {detailedProjects[i].id : i \in 1..Len(detailedProjects)} :
          id # selectedProjectId /\ setSelectedProjectId(id)
    /\ UNCHANGED <<now, edits>>
    /\ EditorFrame

EditorIdle ==
    /\ route = "/"
    /\ storageFull = FALSE
    /\ localStorage = NoItems
    /\ detailedProjects = <<>>
    /\ selectedProjectId = NewProjectId
    /\ currentProject = initialProjectState
    /\ now = 0
    /\ edits = 0

-----------------------------------------------------------------------------
(* The risk-analysis service: two async functions around one collaborator. *)

GeminiFunctions == {"generateProjectRiskAnalysis", "generateDetailedProjectRiskAnalysis"}

\* what the catch block of the function returns
FallbackMessage(fn) ==
    IF fn = "generateProjectRiskAnalysis"
    THEN <<"E","r","r","o"," ","a","o"," ","g","e","r","a","r"," ","a"," ","a","n","a'","l","i","s","e"," ","d","e"," ","r","i","s","c","o",".">>
    ELSE <<"E","r","r","o"," ","a","o"," ","g","e","r","a","r"," ","a"," ","a","n","a'","l","i","s","e"," ","d","e"," ","r","i","s","c","o"," ","d","e","t","a","l","h","a","d","a",".">>

\* how the body of the try block completes
Throw(error) == [kind |-> "throw", error |-> error]
Return(v) == [kind |-> "return", value |-> v]

\* the promise of the function without its catch block
RiskAnalysisPromiseUncaught(fn, outcome, completion) ==
    IF completion.kind = "throw"
    THEN [fn |-> fn, outcome |-> outcome, status |-> "rejected", value |-> completion.error]
    ELSE [fn |-> fn, outcome |-> outcome, status |-> "fulfilled", value |-> completion.value]

\* the promise the async function returns, once settled: try { ... return
\* response.text } catch (error) { ... return the message }; outcome records
\* what the collaborator did
RiskAnalysisPromise(fn, outcome, completion) ==
    IF completion.kind = "throw"
    THEN [fn |-> fn, outcome |-> outcome, status |-> "fulfilled",
          value |-> Str(FallbackMessage(fn))]
    ELSE [fn |-> fn, outcome |-> outcome, status |-> "fulfilled", value |-> completion.value]

ErrorNoKey == Throw("API_KEY environment variable not set")
ErrorThrown == Throw("error thrown by the collaborator")
ErrorRejected == Throw("rejection of the collaborator")

\* the texts of the collaborator's responses; undefined for a response
\* without text
ResponseTexts == { Str(<<"*","*","R","i","s","c","o",":","*","*"," ","p","r","a","z","o"," ","-"," ","*","*","M","i","t","i","g","a","c,","a~","o",":","*","*"," ","r","e","p","l","a","n","e","j","a","r">>), Str(<<>>), Null }

\* the calls made in one session
MaxCalls == 3

AiInit ==
    /\ apiKey \in BOOLEAN
    /\ ai = Null
    /\ pendingCall = Null
    /\ settled = <<>>

CanCall == pendingCall = Null /\ Len(settled) < MaxCalls

AiFrame ==
    UNCHANGED <<percVars, parseVars, classifyVars, appVars, timelineVars, hoursVars, editorVars,
                viewVars>>

\* getAi() throws for want of the key: the catch block returns the message
CallWithoutKey ==
    /\ CanCall
    /\ ai = Null /\ ~apiKey
    /\ \E fn \in GeminiFunctions :
          settled' = Append(settled, RiskAnalysisPromise(fn, "missing API key", ErrorNoKey))
    /\ UNCHANGED <<apiKey, ai, pendingCall>>
    /\ AiFrame

\* the constructor of the client or generateContent throws before a promise
\* is returned: the catch block returns the message
CallThrows ==
    /\ CanCall
    /\ ai # Null \/ apiKey
    /\ \E fn \in GeminiFunctions :
          settled' = Append(settled, RiskAnalysisPromise(fn, "thrown error", ErrorThrown))
    /\ ai' \in {ai, [kind |-> "GoogleGenAI"]}
    /\ UNCHANGED <<apiKey, pendingCall>>
    /\ AiFrame

\* getAi() returns the client, made now or before, and the function awaits
\* the promise of generateContent
CallAwaits ==
    /\ CanCall
    /\ ai # Null \/ apiKey
    /\ ai' = [kind |-> "GoogleGenAI"]
    /\ \E fn \in GeminiFunctions : pendingCall' = [kind |-> "call", fn |-> fn]
    /\ UNCHANGED <<apiKey, settled>>
    /\ AiFrame

\* the promise is fulfilled: response.text is returned, or reading it throws
CollaboratorResolves ==
    /\ pendingCall # Null
    /\ \/ \E t \in ResponseTexts :
             settled' = Append(settled,
                               RiskAnalysisPromise(pendingCall.fn, "success", Return(t)))
       \/ settled' = Append(settled,
                            RiskAnalysisPromise(pendingCall.fn, "thrown error", ErrorThrown))
    /\ pendingCall' = Null
    /\ UNCHANGED <<apiKey, ai>>
    /\ AiFrame

\* the promise is rejected: the await throws into the catch block
CollaboratorRejects ==
    /\ pendingCall # Null
    /\ settled' = Append(settled,
                         RiskAnalysisPromise(pendingCall.fn, "rejection", ErrorRejected))
    /\ pendingCall' = Null
    /\ UNCHANGED <<apiKey, ai>>
    /\ AiFrame

AiIdle ==
    /\ apiKey = FALSE
    /\ ai = Null
    /\ pendingCall = Null
    /\ settled = <<>>

-----------------------------------------------------------------------------
(* PresentationView: the key facts, the next steps and the slides.         *)

\* useLocalStorage's setValue: setStoredValue(valueToStore), then setItem
setKeyFacts(facts) ==
    /\ keyFacts' = facts
    /\ localStorage' = setItem(localStorage, storageFull, KeyFactsKey, facts)
setNextSteps(steps) ==
    /\ nextSteps' = steps
    /\ localStorage' = setItem(localStorage, storageFull, NextStepsKey, steps)

\* dateNow is what Date.now() returns
addKeyFact(dateNow) ==
    IF Trim(newFactText) = <<>>
    THEN UNCHANGED <<keyFacts, localStorage, newFactText, newFactLogo>>
    ELSE /\ setKeyFacts(Append(keyFacts, [id |-> NatToString(dateNow), text |-> newFactText,
                                         logoUrl |-> newFactLogo]))
         /\ newFactText' = <<>>
         /\ newFactLogo' = <<>>

removeKeyFact(id) == setKeyFacts(SelectSeq(keyFacts, LAMBDA f : f.id # id))

addNextStep(dateNow) ==
    IF Trim(newNextStepProject) = <<>> \/ Trim(newNextStepDesc) = <<>>
    THEN UNCHANGED <<nextSteps, localStorage, newNextStepProject, newNextStepDesc>>
    ELSE /\ setNextSteps(Append(nextSteps, [id |-> NatToString(dateNow),
                                           project |-> newNextStepProject,
                                           description |-> newNextStepDesc]))
         /\ newNextStepProject' = <<>>
         /\ newNextStepDesc' = <<>>

removeNextStep(id) == setNextSteps(SelectSeq(nextSteps, LAMBDA s : s.id # id))

\* slides.length: the cover, the key facts, the portfolio, one slide for
\* each detailed project, the next steps
slidesLength == 4 + Len(shownProjects)

MathMinInt(a, b) == IF a < b THEN a ELSE b
MathMaxInt(a, b) == IF a > b THEN a ELSE b

\* prev => prev + 1, without Math.min
goToNextSlideUnbounded == currentSlideIndex' = currentSlideIndex + 1

goToNextSlide == currentSlideIndex' = MathMinInt(currentSlideIndex + 1, slidesLength - 1)
goToPrevSlide == currentSlideIndex' = MathMaxInt(currentSlideIndex - 1, 0)

\* the listener of keydown, which the effect adds only in slide mode
handleKeyDown(key) ==
    IF key = "ArrowRight" THEN goToNextSlide /\ UNCHANGED isSlideMode
    ELSE IF key = "ArrowLeft" THEN goToPrevSlide /\ UNCHANGED isSlideMode
    ELSE IF key = "Escape" THEN isSlideMode' = FALSE /\ UNCHANGED currentSlideIndex
    ELSE UNCHANGED <<isSlideMode, currentSlideIndex>>

Keys == {"ArrowRight", "ArrowLeft", "Escape", "Enter"}

\* what the user types into the inputs of the two forms
TypedFactTexts == { <<" ">>, <<"M","e","t","a"," ","\"","A","\"">> }
TypedFactLogos == { <<"a",".","p","n","g">> }
TypedNextStepProjects == { <<" ">>, <<"A","l","f","a">> }
TypedNextStepDescs == { <<" ">>, <<"I","r","\\","\n">> }

\* what the storage holds when the view opens
StoredKeyFacts ==
    { <<>>, << [id |-> NatToString(0), text |-> <<"M","a","r","c","o">>, logoUrl |-> <<>>] >> }
StoredNextSteps ==
    { <<>>, << [id |-> NatToString(0), project |-> <<"B","e","t","a">>, description |-> <<"R","e","v","e","r">>] >> }
MaxSlideProjects == 2
StoredSlideProjects ==
    { [i \in 1..n |-> WithId([initialProjectState EXCEPT !.name = <<"B","e","t","a">>], NatToString(i))] :
        n \in 0..MaxSlideProjects }

\* the storage holding the collections, a key without a collection having
\* no item
StorageHolding(projs, facts, steps) ==
    [key \in StorageKeys |->
        IF key = ProjectsKey THEN (IF projs = <<>> THEN Null ELSE JSONstringify(key, projs))
        ELSE IF key = KeyFactsKey THEN (IF facts = <<>> THEN Null ELSE JSONstringify(key, facts))
        ELSE (IF steps = <<>> THEN Null ELSE JSONstringify(key, steps))]

\* the state of PresentationView when it mounts
PresentationMounts(storage) ==
    /\ keyFacts = storedValueOf(storage, KeyFactsKey)
    /\ nextSteps = storedValueOf(storage, NextStepsKey)
    /\ shownProjects = storedValueOf(storage, ProjectsKey)
    /\ newFactText = <<>>
    /\ newFactLogo = <<>>
    /\ newNextStepProject = <<>>
    /\ newNextStepDesc = <<>>
    /\ isSlideMode = FALSE
    /\ currentSlideIndex = 0

PresentationInit ==
    /\ route = "/presentation"
    /\ storageFull = FALSE
    /\ localStorage \in { StorageHolding(projs, facts, steps) :
                            projs \in StoredSlideProjects, facts \in StoredKeyFacts,
                            steps \in StoredNextSteps }
    /\ PresentationMounts(localStorage)
    /\ detailedProjects = <<>>
    /\ selectedProjectId = NewProjectId
    /\ currentProject = initialProjectState
    /\ now = 1
    /\ edits = 0

\* the view is shown on the route /presentation
PresentationFrame ==
    /\ route = "/presentation"
    /\ UNCHANGED <<route, storageFull, detailedProjects, selectedProjectId, currentProject,
                   shownProjects>>
    /\ UNCHANGED <<percVars, parseVars, classifyVars, appVars, timelineVars, hoursVars, aiVars,
                   dialogVars>>

\* the forms and the remove buttons are rendered outside slide mode only
TypeFactText ==
    /\ ~isSlideMode /\ edits < MaxEdits
    /\ \E typed \in TypedFactTexts : newFactText' = typed
    /\ edits' = edits + 1
    /\ UNCHANGED <<keyFacts, nextSteps, localStorage, newFactLogo, newNextStepProject,
                   newNextStepDesc, isSlideMode, currentSlideIndex, now>>
    /\ PresentationFrame

TypeFactLogo ==
    /\ ~isSlideMode /\ edits < MaxEdits
    /\ \E typed \in TypedFactLogos : newFactLogo' = typed
    /\ edits' = edits + 1
    /\ UNCHANGED <<keyFacts, nextSteps, localStorage, newFactText, newNextStepProject,
                   newNextStepDesc, isSlideMode, currentSlideIndex, now>>
    /\ PresentationFrame

TypeNextStepProject ==
    /\ ~isSlideMode /\ edits < MaxEdits
    /\ \E typed \in TypedNextStepProjects : newNextStepProject' = typed
    /\ edits' = edits + 1
    /\ UNCHANGED <<keyFacts, nextSteps, localStorage, newFactText, newFactLogo,
                   newNextStepDesc, isSlideMode, currentSlideIndex, now>>
    /\ PresentationFrame

TypeNextStepDesc ==
    /\ ~isSlideMode /\ edits < MaxEdits
    /\ \E typed \in TypedNextStepDescs : newNextStepDesc' = typed
    /\ edits' = edits + 1
    /\ UNCHANGED <<keyFacts, nextSteps, localStorage, newFactText, newFactLogo,
                   newNextStepProject, isSlideMode, currentSlideIndex, now>>
    /\ PresentationFrame

\* an add that is not rejected reads the clock, which never runs backwards
AddKeyFact ==
    /\ ~isSlideMode
    /\ \E dateNow \in now..MaxClock :
          /\ addKeyFact(dateNow)
          /\ now' = IF Trim(newFactText) = <<>> THEN now ELSE dateNow
    /\ UNCHANGED <<nextSteps, newNextStepProject, newNextStepDesc, isSlideMode,
                   currentSlideIndex, edits>>
    /\ PresentationFrame

RemoveKeyFact ==
    /\ ~isSlideMode
    /\ \E i \in 1..Len(keyFacts) : removeKeyFact(keyFacts[i].id)
    /\ UNCHANGED <<nextSteps, newFactText, newFactLogo, newNextStepProject, newNextStepDesc,
                   isSlideMode, currentSlideIndex, now, edits>>
    /\ PresentationFrame

AddNextStep ==
    /\ ~isSlideMode
    /\ \E dateNow \in now..MaxClock :
          /\ addNextStep(dateNow)
          /\ now' = IF Trim(newNextStepProject) = <<>> \/ Trim(newNextStepDesc) = <<>>
                    THEN now ELSE dateNow
    /\ UNCHANGED <<keyFacts, newFactText, newFactLogo, isSlideMode, currentSlideIndex, edits>>
    /\ PresentationFrame

RemoveNextStep ==
    /\ ~isSlideMode
    /\ \E i \in 1..Len(nextSteps) : removeNextStep(nextSteps[i].id)
    /\ UNCHANGED <<keyFacts, newFactText, newFactLogo, newNextStepProject, newNextStepDesc,
                   isSlideMode, currentSlideIndex, now, edits>>
    /\ PresentationFrame

SlideFrame ==
    /\ UNCHANGED <<keyFacts, nextSteps, localStorage, newFactText, newFactLogo,
                   newNextStepProject, newNextStepDesc, now, edits>>
    /\ PresentationFrame

\* the button "Modo Slide"
EnterSlideMode ==
    /\ currentSlideIndex' = 0
    /\ isSlideMode' = TRUE
    /\ SlideFrame

\* the buttons of the overlay, which is rendered in slide mode only; the
\* arrows are disabled at the first and at the last slide
ClickNextSlide ==
    /\ isSlideMode
    /\ currentSlideIndex # slidesLength - 1
    /\ goToNextSlide
    /\ UNCHANGED isSlideMode
    /\ SlideFrame

ClickPrevSlide ==
    /\ isSlideMode
    /\ currentSlideIndex # 0
    /\ goToPrevSlide
    /\ UNCHANGED isSlideMode
    /\ SlideFrame

CloseSlides ==
    /\ isSlideMode
    /\ isSlideMode' = FALSE
    /\ UNCHANGED currentSlideIndex
    /\ SlideFrame

\* a key is pressed: the listener is there in slide mode only
KeyDown ==
    /\ \E key \in Keys :
          IF isSlideMode THEN handleKeyDown(key)
          ELSE UNCHANGED <<isSlideMode, currentSlideIndex>>
    /\ SlideFrame

-----------------------------------------------------------------------------
(* The routes of App: "/" shows DashboardView, "/monitoring" MonitoringView *)
(* and "/presentation" PresentationView; a view that is not shown is not   *)
(* mounted, and reads its collections from the storage when it mounts.     *)

Routes == {"/", "/monitoring", "/presentation"}

\* what the storage holds when the application starts: what earlier
\* sessions saved
StoredCollections ==
    { StorageHolding(<<>>, <<>>, <<>>),
      StorageHolding(<< WithId([initialProjectState EXCEPT
                                   !.name = <<"B","e","t","a">>,
                                   !.soldHours.ti = Rat(5, 2)], NatToString(0)) >>,
                     << [id |-> NatToString(0), text |-> <<"M","a","r","c","o">>, logoUrl |-> <<>>] >>,
                     <<>>) }

\* the application starts on the dashboard; the storage may be full (the
\* quota of the origin is used up), and the clock may still read the
\* instant of the last save
StorageInit ==
    /\ route = "/"
    /\ localStorage \in StoredCollections
    /\ storageFull \in BOOLEAN
    /\ detailedProjects = <<>>
    /\ selectedProjectId = NewProjectId
    /\ currentProject = initialProjectState
    /\ now \in {0, 1}
    /\ edits = 0

\* the link of the navigation bar to another route: the view shown is
\* unmounted and its state is gone, the view of the route mounts
Navigate ==
    /\ \E to \in Routes \ {route} :
          /\ route' = to
          /\ detailedProjects' = IF to = "/monitoring"
                                 THEN storedValueOf(localStorage, ProjectsKey) ELSE <<>>
          /\ keyFacts' = IF to = "/presentation"
                         THEN storedValueOf(localStorage, KeyFactsKey) ELSE <<>>
          /\ nextSteps' = IF to = "/presentation"
                          THEN storedValueOf(localStorage, NextStepsKey) ELSE <<>>
          /\ shownProjects' = IF to = "/presentation"
                              THEN storedValueOf(localStorage, ProjectsKey) ELSE <<>>
    /\ selectedProjectId' = NewProjectId
    /\ currentProject' = initialProjectState
    /\ newFactText' = <<>>
    /\ newFactLogo' = <<>>
    /\ newNextStepProject' = <<>>
    /\ newNextStepDesc' = <<>>
    /\ isSlideMode' = FALSE
    /\ currentSlideIndex' = 0
    /\ UNCHANGED <<localStorage, storageFull, now, edits>>
    /\ UNCHANGED <<percVars, parseVars, classifyVars, appVars, timelineVars, hoursVars, aiVars,
                   dialogVars>>

PresentationIdle ==
    /\ keyFacts = <<>>
    /\ nextSteps = <<>>
    /\ shownProjects = <<>>
    /\ newFactText = <<>>
    /\ newFactLogo = <<>>
    /\ newNextStepProject = <<>>
    /\ newNextStepDesc = <<>>
    /\ isSlideMode = FALSE
    /\ currentSlideIndex = 0

-----------------------------------------------------------------------------
(* RiskAnalysisModal, as DashboardView shows it for a row of the table     *)
(* (MonitoringView's dialog has the same state and the same effect).       *)

MaxRequests == 3

\* the text the collaborator answers for the project
AnalysisOf(project) == <<"R","i","s","c","o",":"," ">> \o project.CLIENTE

\* how the promise of generateProjectRiskAnalysis(project) can be settled:
\* with the text of the response, with undefined for a response without
\* text, or with the message of the catch block
ServiceOutcomes(project) ==
    { RiskAnalysisPromise("generateProjectRiskAnalysis", "success",
                          Return(Str(AnalysisOf(project)))),
      RiskAnalysisPromise("generateProjectRiskAnalysis", "success", Return(Null)),
      RiskAnalysisPromise("generateProjectRiskAnalysis", "rejection", ErrorRejected),
      RiskAnalysisPromise("generateProjectRiskAnalysis", "missing API key", ErrorNoKey) }

\* the effect on [project]: setIsLoading(true) and the call of the service;
\* the request records the instance of the dialog that awaits it
fetchAnalysis(mount, project) ==
    /\ isLoading' = TRUE
    /\ requests' = Append(requests, [mount |-> mount, project |-> project, settled |-> FALSE])

\* analysis.replace(/\n/g, '<br />') throws unless analysis is a string
RenderThrows(shown, loading) == ~loading /\ shown = Null

\* the rest of fetchAnalysis after the await: setAnalysis(result) and
\* setIsLoading(false) act on the instance that made the request, and do
\* nothing once it is unmounted; a render that throws removes the page,
\* there being no error boundary
afterAwait(k, result) ==
    IF selectedProjectForRisk # Null /\ requests[k].mount = mounts
    THEN IF RenderThrows(result, FALSE)
         THEN /\ crashed' = TRUE
              /\ selectedProjectForRisk' = Null
              /\ analysis' = Str(<<>>)
              /\ isLoading' = TRUE
         ELSE /\ analysis' = result
              /\ isLoading' = FALSE
              /\ UNCHANGED <<selectedProjectForRisk, crashed>>
    ELSE UNCHANGED <<selectedProjectForRisk, analysis, isLoading, crashed>>

\* the dashboard after a.csv was loaded
DialogInit ==
    /\ projects = ParsedFiles[<<"a",".","c","s","v">>].rows
    /\ fileName = <<"a",".","c","s","v">>
    /\ statusFilter = <<>>
    /\ buFilter = <<>>
    /\ clientFilter = <<>>
    /\ reads = <<>>
    /\ lastAlerts = ParsedFiles[<<"a",".","c","s","v">>].alerts
    /\ inputFile = <<"a",".","c","s","v">>
    /\ selectedProjectForRisk = Null
    /\ analysis = Str(<<>>)
    /\ isLoading = TRUE
    /\ mounts = 0
    /\ requests = <<>>
    /\ crashed = FALSE

DialogFrame ==
    /\ ~crashed
    /\ UNCHANGED <<percVars, parseVars, classifyVars, appVars, timelineVars, hoursVars,
                   editorVars, aiVars, presentationVars>>

\* the button of a row while no dialog is shown: the dialog mounts with its
\* initial state and its effect runs
OpenDialog ==
    /\ selectedProjectForRisk = Null
    /\ Len(requests) < MaxRequests
    /\ \E p \in ElementsOf(filteredProjects) :
          /\ selectedProjectForRisk' = p
          /\ fetchAnalysis(mounts + 1, p)
    /\ mounts' = mounts + 1
    /\ analysis' = Str(<<>>)
    /\ UNCHANGED crashed
    /\ DialogFrame

\* the button of another row, reached with the keyboard while the dialog is
\* shown: the dialog stays mounted, its project changes and the effect runs
\* again
ChangeDialogProject ==
    /\ selectedProjectForRisk # Null
    /\ Len(requests) < MaxRequests
    /\ \E p \in ElementsOf(filteredProjects) \ {selectedProjectForRisk} :
          /\ selectedProjectForRisk' = p
          /\ fetchAnalysis(mounts, p)
    /\ UNCHANGED <<analysis, mounts, crashed>>
    /\ DialogFrame

\* onClose: the dialog is unmounted and its state is gone
CloseDialog ==
    /\ selectedProjectForRisk # Null
    /\ selectedProjectForRisk' = Null
    /\ analysis' = Str(<<>>)
    /\ isLoading' = TRUE
    /\ UNCHANGED <<mounts, requests, crashed>>
    /\ DialogFrame

\* the promise of a request is settled, the requests in any order
ServiceSettles ==
    /\ \E k \in 1..Len(requests) :
          /\ ~requests[k].settled
          /\ requests' = [requests EXCEPT ![k].settled = TRUE]
          /\ \E promise \in ServiceOutcomes(requests[k].project) :
                afterAwait(k, promise.value)
    /\ UNCHANGED mounts
    /\ DialogFrame

DialogIdle ==
    /\ selectedProjectForRisk = Null
    /\ analysis = Str(<<>>)
    /\ isLoading = TRUE
    /\ mounts = 0
    /\ requests = {}
    /\ crashed = FALSE

ViewIdle == PresentationIdle /\ DialogIdle

DetailIdle == TimelineIdle /\ HoursIdle /\ EditorIdle /\ AiIdle /\ ViewIdle

-----------------------------------------------------------------------------
(* The specifications: one per component, the other components idle.       *)

InitPercent == PercentInit /\ ParseIdle /\ ClassifyIdle /\ AppIdle /\ DetailIdle
NextPercent == CallNormalizePercent /\ UNCHANGED <<parseVars, classifyVars, appVars, detailVars>>
SpecPercent == InitPercent /\ [][NextPercent]_vars

InitParse == ParseInit /\ PercentIdle /\ ClassifyIdle /\ AppIdle /\ DetailIdle
NextParse == CallParseTeleinfoCsv /\ UNCHANGED <<percVars, classifyVars, appVars, detailVars>>
SpecParse == InitParse /\ [][NextParse]_vars

\* parseTeleinfoCsv on the inputs chosen for the columns
InitColumns == ColumnsInit /\ PercentIdle /\ ClassifyIdle /\ AppIdle /\ DetailIdle
NextColumns == CallParseTeleinfoCsv /\ UNCHANGED <<percVars, classifyVars, appVars, detailVars>>
SpecColumns == InitColumns /\ [][NextColumns]_vars

InitClassify == ClassifyInit /\ PercentIdle /\ ParseIdle /\ AppIdle /\ DetailIdle
NextClassify == CallClassifiers /\ UNCHANGED <<percVars, parseVars, appVars, detailVars>>
SpecClassify == InitClassify /\ [][NextClassify]_vars

\* the application from its start
Init == AppInit /\ PercentIdle /\ ParseIdle /\ ClassifyIdle /\ DetailIdle
Next ==
    \/ SelectFile
    \/ ReadCompletes
    \/ ChangeStatusFilter
    \/ ChangeBuFilter
    \/ ChangeClientFilter
Spec == Init /\ [][Next]_vars

\* the dashboard over any bounded collection
InitAggregate == AggregateInit /\ PercentIdle /\ ParseIdle /\ ClassifyIdle /\ DetailIdle
NextAggregate ==
    \/ ChangeStatusFilter
    \/ ChangeBuFilter
    \/ ChangeClientFilter
SpecAggregate == InitAggregate /\ [][NextAggregate]_vars

OthersIdle == PercentIdle /\ ParseIdle /\ ClassifyIdle /\ AppIdle /\ ViewIdle
OthersUnchanged == UNCHANGED <<percVars, parseVars, classifyVars, appVars, viewVars>>

\* the timeline of a detailed project's slide
InitTimeline == TimelineInit /\ HoursIdle /\ EditorIdle /\ AiIdle /\ OthersIdle
NextTimeline == RenderTimeline /\ UNCHANGED <<hoursVars, editorVars, aiVars>> /\ OthersUnchanged
SpecTimeline == InitTimeline /\ [][NextTimeline]_vars

\* the hours chart of a detailed project's slide
InitHours == HoursInit /\ TimelineIdle /\ EditorIdle /\ AiIdle /\ OthersIdle
NextHours == RenderHoursBar /\ UNCHANGED <<timelineVars, editorVars, aiVars>> /\ OthersUnchanged
SpecHours == InitHours /\ [][NextHours]_vars

\* the monitoring editor from its start
InitEditor == EditorInit /\ TimelineIdle /\ HoursIdle /\ AiIdle /\ OthersIdle
NextEditor ==
    \/ ChangeInput
    \/ ChangeStep
    \/ ChangeHours
    \/ AddStep
    \/ RemoveStep
    \/ Save
    \/ NewProject
    \/ SelectProject
SpecEditor == InitEditor /\ [][NextEditor]_vars

\* the risk-analysis service and its collaborator
InitAi == AiInit /\ TimelineIdle /\ HoursIdle /\ EditorIdle /\ OthersIdle
NextAi ==
    \/ CallWithoutKey
    \/ CallThrows
    \/ CallAwaits
    \/ CollaboratorResolves
    \/ CollaboratorRejects
SpecAi == InitAi /\ [][NextAi]_vars

\* the presentation view from its mount
InitPresentation ==
    /\ PresentationInit
    /\ TimelineIdle /\ HoursIdle /\ AiIdle /\ DialogIdle
    /\ PercentIdle /\ ParseIdle /\ ClassifyIdle /\ AppIdle
NextPresentation ==
    \/ TypeFactText
    \/ TypeFactLogo
    \/ TypeNextStepProject
    \/ TypeNextStepDesc
    \/ AddKeyFact
    \/ RemoveKeyFact
    \/ AddNextStep
    \/ RemoveNextStep
    \/ EnterSlideMode
    \/ ClickNextSlide
    \/ ClickPrevSlide
    \/ CloseSlides
    \/ KeyDown
SpecPresentation == InitPresentation /\ [][NextPresentation]_vars

\* the risk-analysis dialog of the dashboard
InitDialog ==
    /\ DialogInit
    /\ TimelineIdle /\ HoursIdle /\ EditorIdle /\ AiIdle /\ PresentationIdle
    /\ PercentIdle /\ ParseIdle /\ ClassifyIdle
NextDialog ==
    \/ OpenDialog
    \/ ChangeDialogProject
    \/ CloseDialog
    \/ ServiceSettles
SpecDialog == InitDialog /\ [][NextDialog]_vars

\* the three views and the storage they share
InitStorage ==
    /\ StorageInit
    /\ TimelineIdle /\ HoursIdle /\ AiIdle /\ ViewIdle
    /\ PercentIdle /\ ParseIdle /\ ClassifyIdle /\ AppIdle
NextStorage ==
    \/ Navigate
    \/ ChangeInput
    \/ AddStep
    \/ RemoveStep
    \/ Save
    \/ NewProject
    \/ SelectProject
    \/ TypeFactText
    \/ TypeFactLogo
    \/ TypeNextStepProject
    \/ TypeNextStepDesc
    \/ AddKeyFact
    \/ RemoveKeyFact
    \/ AddNextStep
    \/ RemoveNextStep
SpecStorage == InitStorage /\ [][NextStorage]_vars

\* the same, every request being settled in the end
SpecDialogFair == InitDialog /\ [][NextDialog]_vars /\ WF_vars(ServiceSettles)

-----------------------------------------------------------------------------
(* C6: what normalizePercent returns.                                      *)

\* p is a numeral: [+-] (Infinity | mantissa [(e|E) [+-] digits]), where a
\* mantissa is digits with at most one point and at least one digit
C6_Unsigned(p) == IF p # <<>> /\ p[1] \in {"+", "-"} THEN Tail(p) ELSE p
C6_AllDigits(p) == \A i \in 1..Len(p) : IsDigit(p[i])
C6_EAt(p) == {i \in 1..Len(p) : p[i] \in {"e", "E"}}
C6_Mantissa(p) ==
    IF C6_EAt(p) = {} THEN p ELSE SubSeq(p, 1, (CHOOSE i \in C6_EAt(p) : TRUE) - 1)
C6_Exponent(p) ==
    IF C6_EAt(p) = {} THEN <<>>
    ELSE SubSeq(p, (CHOOSE i \in C6_EAt(p) : TRUE) + 1, Len(p))
C6_IsMantissa(m) ==
    /\ Cardinality({i \in 1..Len(m) : m[i] = "."}) <= 1
    /\ \A i \in 1..Len(m) : m[i] = "." \/ IsDigit(m[i])
    /\ \E i \in 1..Len(m) : IsDigit(m[i])
C6_IsNumeral(p) ==
    LET u == C6_Unsigned(p)
    IN  \/ u = InfinityWord
        \/ /\ Cardinality(C6_EAt(u)) <= 1
           /\ C6_IsMantissa(C6_Mantissa(u))
           /\ C6_EAt(u) # {} =>
                /\ C6_Unsigned(C6_Exponent(u)) # <<>>
                /\ C6_AllDigits(C6_Unsigned(C6_Exponent(u)))

\* the number a numeral denotes
C6_NumeralValue(p) ==
    LET u == C6_Unsigned(p)
        sign == IF p[1] = "-" THEN -1 ELSE 1
        m == C6_Mantissa(u)
        e == C6_Exponent(u)
        pt == {i \in 1..Len(m) : m[i] = "."}
        frac == IF pt = {} THEN 0 ELSE Len(m) - (CHOOSE i \in pt : TRUE)
        exp == IF e = <<>> THEN 0
               ELSE (IF e[1] = "-" THEN -1 ELSE 1) * DigitsValue(C6_Unsigned(e))
        mant == DigitsValue(RemoveAll(m, "."))
    IN  IF u = InfinityWord THEN Infinity(sign)
        ELSE IF exp >= frac THEN Rat(sign * mant * Pow10(exp - frac), 1)
        ELSE Rat(sign * mant, Pow10(frac - exp))

\* the lengths of the prefixes of r that are numerals
C6_NumeralPrefixes(r) == {k \in 1..Len(r) : C6_IsNumeral(SubSeq(r, 1, k))}

\* the number denoted by the longest leading numeral of r, Null when r does
\* not begin with a numeral
C6_LeadingNumber(r) ==
    LET ks == C6_NumeralPrefixes(r)
    IN  IF ks = {} THEN Null
        ELSE C6_NumeralValue(SubSeq(r, 1, CHOOSE k \in ks : \A j \in ks : j <= k))

\* s with its first "%" (wherever it is) removed, then surrounding white
\* space removed
C6_WithoutFirstPercent(s) ==
    LET at == {i \in 1..Len(s) : s[i] = "%"}
        first == CHOOSE i \in at : \A j \in at : i <= j
    IN  Trim(IF at = {} THEN s ELSE [i \in 1..(Len(s) - 1) |-> IF i < first THEN s[i] ELSE s[i + 1]])

\* s with a trailing "%" and the surrounding white space removed
C6_WithoutTrailingPercent(s) ==
    LET t == Trim(s)
    IN  IF t # <<>> /\ t[Len(t)] = "%" THEN Trim(SubSeq(t, 1, Len(t) - 1)) ELSE t

\* r with its first comma read as a decimal point
C6_CommaAsPoint(r) ==
    LET at == {i \in 1..Len(r) : r[i] = ","}
    IN  [i \in 1..Len(r) |->
            IF at # {} /\ i = (CHOOSE k \in at : \A j \in at : k <= j) THEN "." ELSE r[i]]

\* C6 as stated: null for null input, for input that is empty once a
\* TRAILING % and the surrounding white space are removed, and for an
\* unparseable remainder; otherwise the number the remainder denotes with
\* a decimal comma read as a decimal point.  ("Unparseable" is read the
\* way the number parser reads it: no leading numeral.)
C6_AsStated ==
    percPc = "done" =>
        percResult =
            IF value.kind = "null" THEN Null
            ELSE C6_LeadingNumber(C6_CommaAsPoint(C6_WithoutTrailingPercent(value.s)))

\* the documented examples: "45%" -> 45, "45,5" -> 45.5, "45.5" -> 45.5,
\* " 45 " -> 45; "", null, "abc%" -> null; and 150% stays 150
C6_Examples ==
    /\ normalizePercent(Str(<<"4","5","%">>)) = Rat(45, 1)
    /\ normalizePercent(Str(<<"4","5",",","5">>)) = Rat(91, 2)
    /\ normalizePercent(Str(<<"4","5",".","5">>)) = Rat(91, 2)
    /\ normalizePercent(Str(<<" ","4","5"," ">>)) = Rat(45, 1)
    /\ normalizePercent(Str(<<>>)) = Null
    /\ normalizePercent(Null) = Null
    /\ normalizePercent(Str(<<"a","b","c","%">>)) = Null
    /\ normalizePercent(Str(<<"1","5","0","%">>)) = Rat(150, 1)

\* C6 (amended): normalizePercent returns null for null input, for input
\* that is empty once its FIRST % (wherever it occurs) and the surrounding
\* white space are removed, and for a remainder that does not begin with a
\* numeral; otherwise it returns the number denoted by the longest leading
\* numeral of the remainder, its first comma read as a decimal point and
\* whatever follows the numeral ignored; the number is not clamped to
\* [0, 100].
C6_NormalizePercent ==
    /\ percPc = "done" =>
          percResult =
              IF value.kind = "null" THEN Null
              ELSE C6_LeadingNumber(C6_CommaAsPoint(C6_WithoutFirstPercent(value.s)))
    /\ C6_Examples

\* a call on "45,5" has returned 45.5
C6_Witness ==
    /\ percPc = "done"
    /\ value = Str(<<"4","5",",","5">>)
    /\ percResult = Rat(91, 2)

-----------------------------------------------------------------------------
(* C1 .. C4: parseTeleinfoCsv.  The statements below read the input from   *)
(* the pieces it was assembled from (csvParts), not from the parser's own  *)
(* line splitting.                                                         *)

\* the line contains "CLIENTE" in any mix of upper and lower case
InContainsCliente(l) ==
    \E i \in 1..(Len(l) - 6) :
        \A k \in 1..7 : l[i + k - 1] \in {ColCLIENTE[k], LowerOf[ColCLIENTE[k]]}

InLines == PartLines(csvParts)

\* the usable lines: those holding something other than semicolons and
\* white space
InUsable(l) == \E i \in 1..Len(l) : l[i] # ";" /\ ~IsWhiteSpace(l[i])

\* the trimmed, lower-cased column names of a header line
InColumnsOf(headerLine) ==
    LET cells == Split(headerLine, ";")
    IN  [i \in 1..Len(cells) |-> ToLowerCase(Trim(cells[i]))]

\* what the input is: whether some line contains "CLIENTE"; the header
\* line, which is the first such line; its column names; and the usable
\* lines after it, in order
InFactsOf(lines) ==
    LET at == {i \in 1..Len(lines) : InContainsCliente(lines[i])}
        pos == CHOOSE i \in at : \A j \in at : i <= j
    IN  IF at = {}
        THEN [hasHeader |-> FALSE, headerLine |-> <<>>, columns |-> <<>>,
              dataLines |-> <<>>]
        ELSE [hasHeader |-> TRUE, headerLine |-> lines[pos],
              columns |-> InColumnsOf(lines[pos]),
              dataLines |-> SelectSeq(SubSeq(lines, pos + 1, Len(lines)), InUsable)]

InFacts == InFactsOf(InLines)

\* the columns cols have one named exactly name, ignoring case
InHasColumn(cols, name) == \E i \in 1..Len(cols) : cols[i] = ToLowerCase(name)

\* the trimmed cell of a data line under the first of the columns cols
\* named name; the empty string when there is no such column or the line
\* is too short
InCellOf(cols, line, name) ==
    LET at == {i \in 1..Len(cols) : cols[i] = ToLowerCase(name)}
        cells == Split(line, ";")
        first == CHOOSE i \in at : \A j \in at : i <= j
    IN  IF at = {} \/ first > Len(cells) THEN <<>> ELSE Trim(cells[first])

\* the three parse-fatal alerts
FatalAlerts == {AlertHeaderNotFound, AlertEmptyOrHeaderOnly, AlertNoIdentityColumn}

\* the input is BOM + two junk lines + CLIENTE;STATUS;% + Acme;Finalizado OK;80%
C1_IsExample ==
    /\ csvParts.bom
    /\ Len(csvParts.junk) = 2
    /\ csvParts.header = << <<"C","L","I","E","N","T","E",";","S","T","A","T","U","S",";","%">> >>
    /\ csvParts.data = << <<"A","c","m","e",";","F","i","n","a","l","i","z","a","d","o"," ","O","K",";","8","0","%">> >>

C1_ExampleRecord ==
    [ CLIENTE         |-> <<"A","c","m","e">>,
      TIPO_DE_PROJETO |-> <<>>,
      TIPO_DE_PRODUTO |-> <<>>,
      BUs             |-> <<>>,
      C_Custo         |-> <<>>,
      STATUS          |-> <<"F","I","N","A","L","I","Z","A","D","O"," ","O","K">>,
      perc            |-> Rat(80, 1) ]

\* the records built from a header line and the data lines that follow it
C1_RecordsOf(header, data) ==
    LET idxMap == IdxMap(Headers(header))
    IN  IF idxMap.cliente = -1 /\ idxMap.cCusto = -1 THEN <<>>
        ELSE RowsFrom(<<header>> \o data, idxMap, 1)

\* C1: for an input made of an optional BOM, junk lines without "CLIENTE",
\* a header line and data lines, the records returned are exactly those
\* built from the header and the data lines after it that are not empty
\* once their semicolons are removed; the BOM, the junk lines and the line
\* break used change nothing.  BOM + 2 junk lines + CLIENTE;STATUS;% +
\* Acme;Finalizado OK;80% gives the one record Acme / FINALIZADO OK / 80.
C1_RecordsFromRowsAfterHeader ==
    (parsePc = "done" /\ csvParts.header # <<>>) =>
        /\ \A i \in 1..Len(csvParts.junk) : ~InContainsCliente(csvParts.junk[i])
        /\ rows = C1_RecordsOf(csvParts.header[1],
                      SelectSeq(csvParts.data, LAMBDA l : RemoveAll(l, ";") # <<>>))
        /\ C1_IsExample => rows = <<C1_ExampleRecord>>

\* the example input has been parsed into its one record
C1_Witness ==
    /\ parsePc = "done"
    /\ C1_IsExample
    /\ csvParts.eol = CRLF
    /\ Len(rows) = 1

\* C2: when no line contains "CLIENTE" (in any case), and when a header
\* line is found but no usable line follows it, no record is returned and
\* the matching parse-fatal alert is the one alert raised.
C2_FatalWithoutHeaderOrRows ==
    parsePc = "done" =>
        \A in \in {InFacts} :
            /\ ~in.hasHeader => (rows = <<>> /\ alerts = <<AlertHeaderNotFound>>)
            /\ (in.hasHeader /\ in.dataLines = <<>>) =>
                  (rows = <<>> /\ alerts = <<AlertEmptyOrHeaderOnly>>)

\* a header followed only by a separator-noise line has been rejected
C2_Witness ==
    /\ parsePc = "done"
    /\ csvParts.header # <<>>
    /\ csvParts.data = << <<" ",";",";"," ">> >>
    /\ rows = <<>>
    /\ alerts = <<AlertEmptyOrHeaderOnly>>

\* no line with "CLIENTE" at all has been rejected
C2_WitnessNoHeader ==
    /\ parsePc = "done"
    /\ ~InFacts.hasHeader
    /\ Len(InLines) = MaxLines
    /\ alerts = <<AlertHeaderNotFound>>

\* C3: when the header line has neither a column named exactly CLIENTE nor
\* one named exactly C.Custo (ignoring case, after trimming), no record is
\* returned and one parse-fatal alert is raised, whatever the data lines
\* hold; with a usable data line it is the identity-column alert.
C3_FatalWithoutIdentityColumn ==
    parsePc = "done" =>
        \A in \in {InFacts} :
            (in.hasHeader /\ ~InHasColumn(in.columns, ColCLIENTE)
                          /\ ~InHasColumn(in.columns, ColC_Custo)) =>
                /\ rows = <<>>
                /\ Len(alerts) = 1 /\ alerts[1] \in FatalAlerts
                /\ in.dataLines # <<>> => alerts = <<AlertNoIdentityColumn>>

\* a header holding "CLIENTE" only inside a longer column name, followed by
\* a data line, has been rejected
C3_Witness ==
    /\ parsePc = "done"
    /\ csvParts.header = << <<"N","O","M","E"," ","D","O"," ","C","L","I","E","N","T","E",";","S","T","A","T","U","S">> >>
    /\ csvParts.data = << <<"A","c","m","e",";","F","i","n","a","l","i","z","a","d","o"," ","O","K",";","8","0","%">> >>
    /\ rows = <<>>
    /\ alerts = <<AlertNoIdentityColumn>>

\* the parse got as far as the data lines
C4_ReachedRows(in) ==
    /\ in.hasHeader
    /\ in.dataLines # <<>>
    /\ InHasColumn(in.columns, ColCLIENTE) \/ InHasColumn(in.columns, ColC_Custo)

\* the data lines with a CLIENTE or a C.Custo cell, in order
C4_KeptLines(in) ==
    SelectSeq(in.dataLines,
              LAMBDA l : \/ InCellOf(in.columns, l, ColCLIENTE) # <<>>
                         \/ InCellOf(in.columns, l, ColC_Custo) # <<>>)

\* C4: a data line yields a record exactly when its trimmed CLIENTE cell or
\* its trimmed C.Custo cell is not empty: there is one record per such
\* line, in the order of the lines, holding that line's cells; every
\* record has a CLIENTE or a C.Custo; a dropped line raises no alert (the
\* only alert possible is the one raised when no record is left).
C4_RowSkip ==
    parsePc = "done" =>
        \A in \in {InFacts} :
            C4_ReachedRows(in) =>
                \A kept \in {C4_KeptLines(in)} :
                    /\ Len(rows) = Len(kept)
                    /\ \A k \in 1..Len(rows) :
                          /\ rows[k].CLIENTE = InCellOf(in.columns, kept[k], ColCLIENTE)
                          /\ rows[k].C_Custo = InCellOf(in.columns, kept[k], ColC_Custo)
                          /\ rows[k].STATUS =
                                ToUpperCase(InCellOf(in.columns, kept[k], ColSTATUS))
                          /\ rows[k].CLIENTE # <<>> \/ rows[k].C_Custo # <<>>
                    /\ alerts = IF kept = <<>> THEN <<AlertNoValidRows>> ELSE <<>>

\* three data lines of which the middle one was dropped, no alert
C4_Witness ==
    /\ parsePc = "done"
    /\ Len(rows) = 2
    /\ rows[1].C_Custo # <<>> /\ rows[1].CLIENTE = <<>>
    /\ alerts = <<>>
    /\ \E in \in {InFacts} :
          /\ C4_ReachedRows(in)
          /\ Len(in.dataLines) = 3
          /\ C4_KeptLines(in) = <<in.dataLines[1], in.dataLines[3]>>

-----------------------------------------------------------------------------
(* C5: the warning case of parseTeleinfoCsv and what its caller does.      *)

\* the reads left when the i-th one is taken away
C5_Without(pending, i) ==
    [k \in 1..(Len(pending) - 1) |-> IF k < i THEN pending[k] ELSE pending[k + 1]]

\* the file has a header line with an identity column and at least one
\* usable data line after it, and no data line has a CLIENTE or a C.Custo
C5_IsWarningCase(parts) ==
    \E in \in {InFactsOf(PartLines(parts))} :
        /\ C4_ReachedRows(in)
        /\ C4_KeptLines(in) = <<>>

\* C5: when the read of a file completes whose header line has an identity
\* column and is followed by at least one usable data line, every data
\* line being skipped, the one alert raised is the no-valid-row warning,
\* which is none of the three parse-fatal alerts, and the caller goes on
\* as for any result: the collection becomes the empty record set, the
\* file name becomes that file's, and the dashboard shows its empty state.
C5_WarningThenEmptyDashboard ==
    [][ \A i \in 1..Len(reads) :
           ( /\ reads' = C5_Without(reads, i)
             /\ C5_IsWarningCase(FileNamed(reads[i]).parts) ) =>
               /\ lastAlerts' = <<AlertNoValidRows>>
               /\ AlertNoValidRows \notin FatalAlerts
               /\ projects' = <<>>
               /\ fileName' = reads[i]
               /\ DashboardScreen' = "welcome" ]_vars

\* a file whose two data lines are both skipped has been loaded
C5_Witness ==
    /\ fileName = <<"s","k","i","p","1",".","c","s","v">>
    /\ C5_IsWarningCase(FileNamed(fileName).parts)
    /\ projects = <<>>
    /\ lastAlerts = <<AlertNoValidRows>>
    /\ DashboardScreen = "welcome"

-----------------------------------------------------------------------------
(* C7, C8: the classifiers.                                                *)

\* the text t begins with the text l
C7_BeginsWith(t, l) == Len(t) >= Len(l) /\ \A k \in 1..Len(l) : t[k] = l[k]

\* the canonical labels in their fixed order, with the table entry of each
C7_Labels ==
    << [label |-> <<"F","I","N","A","L","I","Z","A","D","O">>, entry |-> "FINALIZADO"],
       [label |-> <<"E","M"," ","A","N","D","A","M","E","N","T","O">>, entry |-> "EM_ANDAMENTO"],
       [label |-> <<"P","A","R","A","L","I","Z","A","D","O">>, entry |-> "PARALIZADO"],
       [label |-> <<"N","A~","O"," ","I","N","I","C","I","A","D","O">>, entry |-> "NAO_INICIADO"] >>

\* the table entry of a status: that of the first label its trimmed,
\* upper-cased text begins with, DEFAULT when there is none
C7_EntryOf(s) ==
    LET t == ToUpperCase(Trim(s))
        hits == {i \in 1..Len(C7_Labels) : C7_BeginsWith(t, C7_Labels[i].label)}
    IN  IF hits = {} THEN "DEFAULT"
        ELSE C7_Labels[CHOOSE i \in hits : \A j \in hits : i <= j].entry

\* C7: the badge style and the chart color of a status (both copies of the
\* chart color) are those of the first canonical label, in the order
\* FINALIZADO, EM ANDAMENTO, PARALIZADO, NAO INICIADO, that its trimmed,
\* upper-cased text starts with, whatever follows the label, and those of
\* DEFAULT when it starts with none, the empty status included;
\* "PARALIZADO - AGUARDANDO CLIENTE" is PARALIZADO.
C7_StatusByPrefix ==
    classifyPc = "done" =>
        \A e \in {C7_EntryOf(statusArg)} :
            /\ classified.pill = statusColors[e].pill
            /\ classified.chart = statusColors[e].chart
            /\ classified.presentationChart = statusColors[e].chart
            /\ statusArg = <<"P","A","R","A","L","I","Z","A","D","O"," ","-"," ","A","G","U","A","R","D","A","N","D","O"," ","C","L","I","E","N","T","E">> => e = "PARALIZADO"
            /\ statusArg = <<>> => e = "DEFAULT"

\* "PARALIZADO - AGUARDANDO CLIENTE" has been classified as PARALIZADO
C7_Witness ==
    /\ classifyPc = "done"
    /\ statusArg = <<"P","A","R","A","L","I","Z","A","D","O"," ","-"," ","A","G","U","A","R","D","A","N","D","O"," ","C","L","I","E","N","T","E">>
    /\ classified.pill = "bg-red-500/10 text-red-400"
    /\ classified.chart = "#ef4444"
    /\ classified.presentationChart = "#ef4444"

\* the text t contains the text w
C8_Contains(t, w) ==
    \E i \in 1..(Len(t) - Len(w) + 1) : \A k \in 1..Len(w) : t[i + k - 1] = w[k]

\* the color of a trimmed, upper-cased business-unit text by precedence
C8_ColorOf(t) ==
    IF C8_Contains(t, <<"I","N","F","R","A","E","S","T","R","U","T","U","R","A">>) THEN "#f97316"
    ELSE IF C8_Contains(t, <<"S","E","G","U","R","A","N","C,","A">>) THEN "#10b981"
    ELSE IF C8_Contains(t, <<"T","I">>) THEN "#0b5ed7"
    ELSE IF C8_Contains(t, <<"A","U","T","O","M","A","C,","A~","O">>) THEN "#6b7280"
    ELSE "#8b949e"

\* C8: the color of a business unit is decided on its trimmed, upper-cased
\* text by containment, INFRAESTRUTURA before SEGURANCA before TI before
\* AUTOMACAO, the neutral color when it contains none; a text with
\* INFRAESTRUTURA gets the infrastructure color whatever else it holds, a
\* text with TI and AUTOMACAO (and neither of the first two) gets the TI
\* color; the dashboard's and the presentation's copy agree on every input.
C8_BuByContainment ==
    classifyPc = "done" =>
        \A t \in {ToUpperCase(Trim(buArg))} :
            /\ classified.bu = C8_ColorOf(t)
            /\ classified.presentationBu = classified.bu
            /\ C8_Contains(t, <<"I","N","F","R","A","E","S","T","R","U","T","U","R","A">>) => classified.bu = "#f97316"
            /\ ( /\ C8_Contains(t, <<"T","I">>) /\ C8_Contains(t, <<"A","U","T","O","M","A","C,","A~","O">>)
                 /\ ~C8_Contains(t, <<"I","N","F","R","A","E","S","T","R","U","T","U","R","A">>)
                 /\ ~C8_Contains(t, <<"S","E","G","U","R","A","N","C,","A">>) ) => classified.bu = "#0b5ed7"

\* a business unit naming AUTOMACAO before TI has got the TI color
C8_Witness ==
    /\ classifyPc = "done"
    /\ buArg = <<"A","U","T","O","M","A","C,","A~","O","/","t","i">>
    /\ classified.bu = "#0b5ed7"
    /\ classified.presentationBu = "#0b5ed7"

-----------------------------------------------------------------------------
(* C9, C10: the summary of a record collection.                            *)

\* the positions of the records that have a percentage
C9_WithPerc(data) == {i \in 1..Len(data) : data[i].perc # Null}

\* the product of the denominators of the percentages at the positions S
RECURSIVE C9_Den(_, _)
C9_Den(data, S) ==
    IF S = {} THEN 1
    ELSE LET i == CHOOSE j \in S : TRUE
         IN  data[i].perc.d * C9_Den(data, S \ {i})

\* the sum of the percentages at the positions S, as a multiple of 1 / den
RECURSIVE C9_Num(_, _, _)
C9_Num(data, S, den) ==
    IF S = {} THEN 0
    ELSE LET i == CHOOSE j \in S : TRUE
         IN  data[i].perc.n * (den \div data[i].perc.d) + C9_Num(data, S \ {i}, den)

\* the natural number a text of digits denotes
RECURSIVE C9_Natural(_)
C9_Natural(s) ==
    IF s = <<>> THEN 0
    ELSE 10 * C9_Natural(SubSeq(s, 1, Len(s) - 1))
            + (CHOOSE v \in 0..9 : Digits[v + 1] = s[Len(s)])

\* the text is a decimal numeral with one decimal place followed by "%"
C9_IsOneDecimalPercent(s) ==
    /\ Len(s) >= 4
    /\ s[Len(s)] = "%"
    /\ s[Len(s) - 2] = "."
    /\ \A i \in 1..(Len(s) - 1) :
          \/ IsDigit(s[i])
          \/ i = Len(s) - 2
          \/ i = 1 /\ s[i] = "-" /\ Len(s) >= 5

\* the number of tenths such a text denotes
C9_Tenths(s) ==
    LET v == C9_Natural(SelectSeq(s, IsDigit))
    IN  IF s[1] = "-" THEN -v ELSE v

\* the text shows, to one decimal place, the mean of the percentages of
\* the records that have one, and 0.0 when no record has one
C9_ShowsMean(shown, data) ==
    /\ C9_IsOneDecimalPercent(shown)
    /\ \A S \in {C9_WithPerc(data)} :
          IF S = {} THEN shown = <<"0",".","0","%">>
          ELSE \A den \in {C9_Den(data, S)} :
                  Abs(2 * C9_Tenths(shown) * Cardinality(S) * den
                          - 20 * C9_Num(data, S, den)) <= Cardinality(S) * den

\* the percentages of the records are 50, none, 100
C9_IsExample(data) ==
    /\ Len(data) = 3
    /\ data[1].perc = Rat(50, 1)
    /\ data[2].perc = Null
    /\ data[3].perc = Rat(100, 1)

\* C9: the average completion shown, by the dashboard for the filtered
\* records and by the presentation for all records, is the arithmetic mean
\* of the percentages of the records that have one (to one decimal place),
\* records without one being left out of both the sum and the count, and
\* is 0.0 when no record has one; percentages 50, none, 100 show 75.0.
C9_AverageOfNonNull ==
    /\ C9_ShowsMean(summary.avgPercent, filteredProjects)
    /\ C9_ShowsMean(portfolioSummary.avgPercent, projects)
    /\ C9_IsExample(filteredProjects) => summary.avgPercent = <<"7","5",".","0","%">>
    /\ C9_IsExample(projects) => portfolioSummary.avgPercent = <<"7","5",".","0","%">>

\* of records with the percentages 50, none, 100 the presentation shows
\* 75.0, and the dashboard, filtered to the last two, shows 100.0
C9_Witness ==
    /\ C9_IsExample(projects)
    /\ buFilter = <<"T","I">>
    /\ Len(filteredProjects) = 2
    /\ filteredProjects[1].perc = Null
    /\ summary.avgPercent = <<"1","0","0",".","0","%">>
    /\ portfolioSummary.avgPercent = <<"7","5",".","0","%">>

\* the positions of the records whose STATUS starts with the label
C10_Starting(data, label) ==
    {i \in 1..Len(data) : C7_BeginsWith(data[i].STATUS, label)}

\* the four counts of s are those of data
C10_CountsOf(s, data) ==
    \A fin \in {C10_Starting(data, <<"F","I","N","A","L","I","Z","A","D","O">>)},
       prog \in {C10_Starting(data, <<"E","M"," ","A","N","D","A","M","E","N","T","O">>)},
       par \in {C10_Starting(data, <<"P","A","R","A","L","I","Z","A","D","O">>)},
       nst \in {C10_Starting(data, <<"N","A~","O"," ","I","N","I","C","I","A","D","O">>)} :
        /\ s.finished = Cardinality(fin)
        /\ s.inProgress = Cardinality(prog)
        /\ s.paralyzed = Cardinality(par)
        /\ s.notStarted = Cardinality(nst)
        /\ s.total = Len(data)
        /\ fin \cap prog = {} /\ fin \cap par = {} /\ fin \cap nst = {}
        /\ prog \cap par = {} /\ prog \cap nst = {} /\ par \cap nst = {}
        /\ s.finished + s.inProgress + s.paralyzed + s.notStarted
              = Cardinality(fin \cup prog \cup par \cup nst)
        /\ s.finished + s.inProgress + s.paralyzed + s.notStarted <= s.total

\* C10: each of the four counts (of the dashboard over the filtered
\* records, of the presentation over all records) is the number of records
\* whose STATUS starts with that canonical label; no record starts with
\* two labels, a record starting with none is in no count, and the four
\* counts add up to at most the total.
C10_CanonicalCounts ==
    /\ C10_CountsOf(summary, filteredProjects)
    /\ C10_CountsOf(portfolioSummary, projects)

\* with the client filter on, one of the two records left is counted as
\* finished and the other in no count
C10_Witness ==
    /\ clientFilter = <<"A","c","m","e">>
    /\ Len(projects) = 3
    /\ Len(filteredProjects) = 2
    /\ filteredProjects[1].STATUS = <<"F","I","N","A","L","I","Z","A","D","O"," ","O","K">>
    /\ filteredProjects[2].STATUS = <<"C","A","N","C","E","L","A","D","O">>
    /\ summary.finished = 1
    /\ summary.inProgress + summary.paralyzed + summary.notStarted = 0
    /\ summary.total = 2

-----------------------------------------------------------------------------
(* C11: the tallies handed to the charts.                                  *)

\* the literal values of a column of data, an empty one read as "N/A"
C11_Literals(data, col) ==
    {IF data[i][col] = <<>> THEN <<"N","/","A">> ELSE data[i][col] : i \in 1..Len(data)}

\* how often the literal occurs in that column
C11_Occurrences(data, col, literal) ==
    Cardinality({i \in 1..Len(data) :
                    (IF data[i][col] = <<>> THEN <<"N","/","A">> ELSE data[i][col]) = literal})

\* the sum of the counts of a tally
RECURSIVE C11_Total(_)
C11_Total(chart) ==
    IF chart = <<>> THEN 0 ELSE chart[1].Projetos.n + C11_Total(Tail(chart))

\* the chart data is the tally of that column of data: one entry for each
\* distinct literal, holding the number of its occurrences, the counts
\* adding up to the number of records
C11_IsTally(chart, data, col) ==
    /\ {chart[i].name : i \in 1..Len(chart)} = C11_Literals(data, col)
    /\ \A i, j \in 1..Len(chart) : chart[i].name = chart[j].name => i = j
    /\ \A i \in 1..Len(chart) :
          chart[i].Projetos = Rat(C11_Occurrences(data, col, chart[i].name), 1)
    /\ C11_Total(chart) = Len(data)

\* C11: the status tally and the business-unit tally handed to the charts
\* (by the dashboard over the filtered records, by the presentation over
\* all records) hold one entry for every distinct literal STATUS (resp.
\* BUs) value, an empty value read as "N/A", with the number of its
\* occurrences; the counts of each tally add up to the number of records,
\* and a status entry carries the color the classifier gives its literal.
C11_Tallies ==
    /\ C11_IsTally(statusChartData, filteredProjects, "STATUS")
    /\ C11_IsTally(buChartData, filteredProjects, "BUs")
    /\ C11_IsTally(portfolioStatusChartData, projects, "STATUS")
    /\ C11_IsTally(portfolioBuChartData, projects, "BUs")
    /\ \A i \in 1..Len(statusChartData) :
          statusChartData[i].color = statusColors[C7_EntryOf(statusChartData[i].name)].chart
    /\ \A i \in 1..Len(portfolioStatusChartData) :
          portfolioStatusChartData[i].color
              = statusColors[C7_EntryOf(portfolioStatusChartData[i].name)].chart

\* the same for the collections without a business unit named like a
\* property of Object.prototype
C11_TalliesOfOrdinaryNames ==
    (\A i \in 1..Len(projects) :
        projects[i].BUs \notin ObjectPrototypeNames \cup {ProtoName}) => C11_Tallies

\* two records of the business unit "constructor" are tallied as a text
C11_Witness ==
    /\ buFilter = <<"c","o","n","s","t","r","u","c","t","o","r">>
    /\ Len(projects) = 3
    /\ Len(buChartData) = 1
    /\ Len(filteredProjects) = 2
    /\ buChartData[1].name = <<"c","o","n","s","t","r","u","c","t","o","r">>
    /\ buChartData[1].Projetos = Str(<<"f","u","n","c","t","i","o","n"," ","O","b","j","e","c","t","(",")"," ","{"," ","[","n","a","t","i","v","e"," ","c","o","d","e","]"," ","}","1","1">>)

-----------------------------------------------------------------------------
(* C12: the filter options and the filtered records.                       *)

\* a comes before b: a is a proper prefix of b, or at the first position
\* where they differ a has the smaller code unit
C12_Before(a, b) ==
    \/ Len(a) < Len(b) /\ SubSeq(b, 1, Len(a)) = a
    \/ \E k \in 1..Len(a) :
          /\ k <= Len(b)
          /\ SubSeq(a, 1, k - 1) = SubSeq(b, 1, k - 1)
          /\ CodeUnitRank[a[k]] < CodeUnitRank[b[k]]

\* options lists exactly the values, each once, in ascending order
C12_ListsAscending(options, values) ==
    /\ {options[i] : i \in 1..Len(options)} = values
    /\ \A i \in 1..Len(options) : \A j \in 1..Len(options) :
          i < j => C12_Before(options[i], options[j])

\* the record equals every filter that is not empty
C12_Selected(p) ==
    /\ statusFilter = <<>> \/ p.STATUS = statusFilter
    /\ buFilter = <<>> \/ p.BUs = buFilter
    /\ clientFilter = <<>> \/ p.CLIENTE = clientFilter

\* the selected records of data, in their order
RECURSIVE C12_SelectedOf(_)
C12_SelectedOf(data) ==
    IF data = <<>> THEN <<>>
    ELSE (IF C12_Selected(Head(data)) THEN <<Head(data)>> ELSE <<>>)
            \o C12_SelectedOf(Tail(data))

\* C12: whatever filters are selected, the options of each drop-down are the
\* distinct non-empty values of the whole collection in ascending order, and
\* the summary and the table are computed from exactly the records that
\* equal every non-empty filter
C12_OptionsAndFilters ==
    /\ C12_ListsAscending(uniqueFilters.statuses,
                          {projects[i].STATUS : i \in 1..Len(projects)} \ {<<>>})
    /\ C12_ListsAscending(uniqueFilters.bus,
                          {projects[i].BUs : i \in 1..Len(projects)} \ {<<>>})
    /\ C12_ListsAscending(uniqueFilters.clients,
                          {projects[i].CLIENTE : i \in 1..Len(projects)} \ {<<>>})
    /\ filteredProjects = C12_SelectedOf(projects)
    /\ summary.total = Len(C12_SelectedOf(projects))

\* the status "FINALIZADO" is selected among records of "FINALIZADO" and
\* "FINALIZADO OK": one record is shown, and the options are still those of
\* all three records, upper case before lower case
C12_Witness ==
    /\ statusFilter = <<"F","I","N","A","L","I","Z","A","D","O">>
    /\ Len(projects) = 3
    /\ Len(filteredProjects) = 1
    /\ uniqueFilters.statuses = <<<<"A"," ","F","I","N","A","L","I","Z","A","D","O">>, <<"F","I","N","A","L","I","Z","A","D","O">>, <<"F","I","N","A","L","I","Z","A","D","O"," ","O","K">>>>
    /\ uniqueFilters.bus = <<<<"I","N","F","R","A">>, <<"T","I">>, <<"c","o","n","s","t","r","u","c","t","o","r">>>>
    /\ uniqueFilters.clients = <<<<"A","c","m","e">>, <<"G","a","m","a">>>>

-----------------------------------------------------------------------------
(* C13, C14: the timeline of a detailed project's slide.                   *)

C13_Missing == projStart = <<>> \/ projEnd = <<>>
C13_Reversed == ~C13_Missing /\ CivilDayOf(projStart) > CivilDayOf(projEnd)
C13_StartTime == LocalMidnight(timeZone, CivilDayOf(projStart))
C13_EndTime == LocalMidnight(timeZone, CivilDayOf(projEnd))
C13_TodayTime == LocalMidnight(timeZone, todayDay)

\* (today - start) / (end - start) as a percentage
C13_Elapsed ==
    Rat(100 * (C13_TodayTime - C13_StartTime), C13_EndTime - C13_StartTime)

C13_Clamped(x) ==
    IF x.n < 0 THEN Rat(0, 1)
    ELSE IF x.n > 100 * x.d THEN Rat(100, 1)
    ELSE x

\* C13: the elapsed percentage of the timeline is within [0, 100]; it is 0
\* when a date is missing or start > end, 100 or 0 for an interval of one
\* day (100 when today is at or after the end), and otherwise
\* (today - start) / (end - start) as a percentage clamped to [0, 100]
C13_ProgressClamped ==
    timelinePc = "done" =>
        /\ timelineInfo.progress.kind = "number"
        /\ 0 <= timelineInfo.progress.n
        /\ timelineInfo.progress.n <= 100 * timelineInfo.progress.d
        /\ C13_Missing \/ C13_Reversed => timelineInfo.progress = Rat(0, 1)
        /\ ~C13_Missing /\ CivilDayOf(projStart) = CivilDayOf(projEnd) =>
              timelineInfo.progress =
                  IF todayDay >= CivilDayOf(projEnd) THEN Rat(100, 1) ELSE Rat(0, 1)
        /\ ~C13_Missing /\ CivilDayOf(projStart) < CivilDayOf(projEnd) =>
              timelineInfo.progress = C13_Clamped(C13_Elapsed)

\* a project that starts and ends today is at 100
C13_Witness ==
    /\ timelinePc = "done"
    /\ projStart = <<"2","0","2","4","-","0","3","-","1","0">>
    /\ projEnd = <<"2","0","2","4","-","0","3","-","1","0">>
    /\ todayDay = CivilDayOf(<<"2","0","2","4","-","0","3","-","1","0">>)
    /\ timelineInfo.progress = Rat(100, 1)

\* ceil(hours / 1 day): the least whole number of days that covers the hours
C14_Ceil(hours) ==
    CHOOSE n \in -400..400 : n * 24 >= hours /\ (n - 1) * 24 < hours

\* "N day(s)": the noun is plural exactly when N is not 1
C14_Days(n) == NatToString(n) \o (IF n # 1 THEN <<" ","d","i","a","s">> ELSE <<" ","d","i","a">>)

C14_FinishedAgo(n) ==
    IF n = 0 THEN <<"F","i","n","a","l","i","z","a"," ","h","o","j","e">> ELSE <<"F","i","n","a","l","i","z","a","d","o"," ","h","a'"," ">> \o C14_Days(n)
C14_StartsIn(n) ==
    IF n = 0 THEN <<"F","i","n","a","l","i","z","a"," ","h","o","j","e">> ELSE <<"I","n","i","c","i","a"," ","e","m"," ">> \o C14_Days(n)
C14_Remaining(n) ==
    IF n = 0 THEN <<"F","i","n","a","l","i","z","a"," ","h","o","j","e">> ELSE <<"F","a","l","t","a","m"," ">> \o C14_Days(n)

C14_Text ==
    IF C13_Missing \/ C13_Reversed THEN <<"D","a","t","a","s"," ","n","a~","o"," ","d","e","f","i","n","i","d","a","s">>
    ELSE IF C13_TodayTime > C13_EndTime
    THEN C14_FinishedAgo(Abs(C14_Ceil(C13_EndTime - C13_TodayTime)))
    ELSE IF C13_TodayTime < C13_StartTime
    THEN C14_StartsIn(C14_Ceil(C13_StartTime - C13_TodayTime))
    ELSE C14_Remaining(C14_Ceil(C13_EndTime - C13_TodayTime))

\* C14: the text of the timeline is "dates undefined" when a date is missing
\* or start > end; else "finished N days ago" when today > end, "starts in
\* N days" when today < start, "N days remaining" otherwise, N the whole
\* days rounded up, N = 0 reading "finishes today" and the noun plural
\* exactly when N is not 1
C14_TextInOrder ==
    timelinePc = "done" => timelineInfo.text = C14_Text

\* start 2024-01-01, end 2024-01-11, today 2024-01-06: 5 days remaining
C14_Witness ==
    /\ timelinePc = "done"
    /\ timeZone = "America/Sao_Paulo"
    /\ projStart = <<"2","0","2","4","-","0","1","-","0","1">>
    /\ projEnd = <<"2","0","2","4","-","0","1","-","1","1">>
    /\ todayDay = CivilDayOf(<<"2","0","2","4","-","0","1","-","0","6">>)
    /\ timelineInfo.text = <<"F","a","l","t","a","m"," ","5"," ","d","i","a","s">>

-----------------------------------------------------------------------------
(* C15: the colour of the bar of the used hours.                           *)

C15_Expected(sold, used) ==
    IF sold > 0
    THEN IF used > sold THEN "exceeded"
         ELSE IF 10 * used >= 8 * sold THEN "at-risk"
         ELSE "normal"
    ELSE "normal"

C15_ColorOf(level) ==
    CASE level = "exceeded" -> ColorExceeded
      [] level = "at-risk" -> ColorRisk
      [] level = "normal" -> ColorNormal

\* C15: with sold > 0 the bar is "exceeded" when used > sold, else "at-risk"
\* when used / sold >= 0.8, else "normal"; with sold = 0 it is "normal"
\* whatever used is; used = sold > 0 is "at-risk"
C15_BarColor ==
    hoursPc = "done" =>
        /\ barColor = C15_ColorOf(C15_Expected(soldHours.n, usedHours.n))
        /\ soldHours.n > 0 /\ usedHours = soldHours => barColor = ColorRisk
        /\ soldHours.n = 0 => barColor = ColorNormal

\* all the sold hours are used: at risk, not exceeded
C15_Witness ==
    /\ hoursPc = "done"
    /\ soldHours = Rat(10, 1)
    /\ usedHours = Rat(10, 1)
    /\ barColor = ColorRisk

-----------------------------------------------------------------------------
(* C16: the overall progress of the steps of a detailed project.           *)

RECURSIVE C16_Total(_)
C16_Total(steps) ==
    IF steps = <<>> THEN Rat(0, 1)
    ELSE NumAdd(Head(steps).perc, C16_Total(Tail(steps)))

\* the arithmetic mean of all the step percentages, 0 without steps
C16_Mean(steps) ==
    IF steps = <<>> THEN Rat(0, 1)
    ELSE Rat(C16_Total(steps).n, C16_Total(steps).d * Len(steps))

\* C16: the overall progress the editor shows for the project it holds, the
\* one each saved project's slide shows and the one written into the text
\* for the risk analysis are all the mean of all the steps of the project,
\* steps with a blank name included
C16_MeanOfAllSteps ==
    /\ EditorOverallProgress(currentProject.steps) = C16_Mean(currentProject.steps)
    /\ PromptOverallProgress(currentProject.steps) = C16_Mean(currentProject.steps)
    /\ \A i \in 1..Len(detailedProjects) :
          SlideOverallProgress(detailedProjects[i].steps)
              = C16_Mean(detailedProjects[i].steps)

\* the slide and the text for the risk analysis alone do show the mean
C16_SlideAndPromptShowMean ==
    /\ PromptOverallProgress(currentProject.steps) = C16_Mean(currentProject.steps)
    /\ \A i \in 1..Len(detailedProjects) :
          SlideOverallProgress(detailedProjects[i].steps)
              = C16_Mean(detailedProjects[i].steps)

\* the saved project "Beta" with the steps 100, 0 (blank name), 0 is in the
\* editor: the editor shows 50.0%, its slide 33.3%
C16_Witness ==
    /\ selectedProjectId = NatToString(0)
    /\ Len(detailedProjects) = 1
    /\ detailedProjects[1] = WithId(currentProject, NatToString(0))
    /\ currentProject.steps[2].name = <<>>
    /\ overallProgress = <<"5","0",".","0","%">>
    /\ ToFixed1(SlideOverallProgress(detailedProjects[1].steps)) = <<"3","3",".","3">>
    /\ ToFixed1(PromptOverallProgress(currentProject.steps)) = <<"3","3",".","3">>

-----------------------------------------------------------------------------
(* C19: the identities of the saved projects.                              *)

\* C19: after any sequence of saves every saved project has an identity
\* different from every other one's
C19_UniqueIdentities ==
    \A i \in 1..Len(detailedProjects) : \A j \in 1..Len(detailedProjects) :
        i # j => detailedProjects[i].id # detailedProjects[j].id

\* a save changes no identity of a project saved before and removes none
C19_IdentitiesKept ==
    [][/\ Len(detailedProjects') >= Len(detailedProjects)
       /\ \A i \in 1..Len(detailedProjects) :
             detailedProjects'[i].id = detailedProjects[i].id]_vars

\* two projects were created while the clock read the same millisecond:
\* they share the identity, and the editor holds the first of them
C19_Witness ==
    /\ Len(detailedProjects) = 2
    /\ detailedProjects[1].id = detailedProjects[2].id
    /\ selectedProjectId = detailedProjects[2].id
    /\ currentProject = WithoutId(detailedProjects[1])

-----------------------------------------------------------------------------
(* C20: the ranges the edit operations keep.                               *)

C20_InRange(steps) ==
    \A i \in 1..Len(steps) :
        /\ steps[i].perc.kind = "number"
        /\ 0 <= steps[i].perc.n
        /\ steps[i].perc.n <= 100 * steps[i].perc.d

C20_NotNegative(hours) ==
    \A bu \in {"infra", "sse", "ti", "aut"} :
        hours[bu].kind = "number" /\ hours[bu].n >= 0

\* the number a typed text stands for; text that is no number leaves the
\* field empty, which counts as 0
C20_Typed ==
    [typed \in TypedNumbers |->
        CASE typed = <<"-","5">> -> Rat(-5, 1)
          [] typed = <<"1","5","0">> -> Rat(150, 1)
          [] typed = <<"4",".","5","e","1">> -> Rat(45, 1)
          [] OTHER -> Rat(0, 1)]

C20_Between(x, low, high) ==
    IF x.n < low * x.d THEN Rat(low, 1)
    ELSE IF x.n > high * x.d THEN Rat(high, 1)
    ELSE x

C20_AtLeastZero(x) == IF x.n < 0 THEN Rat(0, 1) ELSE x

\* what the handlers store for each typed text: the number brought into
\* [0, 100] for a step percentage, raised to 0 for an hours bucket
C20_StoredAsClamped ==
    \A typed \in TypedNumbers :
        /\ PercValue(NumberInputValue(typed)) = C20_Between(C20_Typed[typed], 0, 100)
        /\ HoursValue(NumberInputValue(typed)) = C20_AtLeastZero(C20_Typed[typed])

\* C20: after any sequence of edit operations every step percentage of the
\* edited project is within [0, 100] and every bucket of sold and of used
\* hours is >= 0; a typed value below 0 is stored as 0 and a step value above
\* 100 as 100
C20_EditsKeepRanges ==
    /\ C20_InRange(currentProject.steps)
    /\ C20_NotNegative(currentProject.soldHours)
    /\ C20_NotNegative(currentProject.usedHours)
    /\ C20_StoredAsClamped

\* 150 was typed for the first step and for the sold hours of a unit
C20_Witness ==
    /\ edits = 2
    /\ Len(currentProject.steps) = 3
    /\ currentProject.steps[1].perc = Rat(100, 1)
    /\ currentProject.soldHours.infra = Rat(150, 1)

-----------------------------------------------------------------------------
(* C17: the risk-analysis functions never fail.                            *)

C17_Fallback ==
    [fn \in GeminiFunctions |->
        IF fn = "generateDetailedProjectRiskAnalysis"
        THEN <<"E","r","r","o"," ","a","o"," ","g","e","r","a","r"," ","a"," ","a","n","a'","l","i","s","e"," ","d","e"," ","r","i","s","c","o"," ","d","e","t","a","l","h","a","d","a",".">>
        ELSE <<"E","r","r","o"," ","a","o"," ","g","e","r","a","r"," ","a"," ","a","n","a'","l","i","s","e"," ","d","e"," ","r","i","s","c","o",".">>]

\* C17: whatever the collaborator does (success, rejection, thrown error,
\* missing API key) the promise of either function is fulfilled, never
\* rejected, and after any failure its value is that function's message
C17_NeverPropagates ==
    \A i \in 1..Len(settled) :
        /\ settled[i].status = "fulfilled"
        /\ settled[i].outcome # "success" =>
              settled[i].value = Str(C17_Fallback[settled[i].fn])
        /\ settled[i].outcome = "success" => settled[i].value \in ResponseTexts

\* with the key set: a rejection of the detailed analysis, then an error
\* thrown in the simple one, then a success
C17_Witness ==
    /\ apiKey
    /\ Len(settled) = 3
    /\ settled[1].fn = "generateDetailedProjectRiskAnalysis"
    /\ settled[1].outcome = "rejection"
    /\ settled[1].value = Str(<<"E","r","r","o"," ","a","o"," ","g","e","r","a","r"," ","a"," ","a","n","a'","l","i","s","e"," ","d","e"," ","r","i","s","c","o"," ","d","e","t","a","l","h","a","d","a",".">>)
    /\ settled[2].fn = "generateProjectRiskAnalysis"
    /\ settled[2].outcome = "thrown error"
    /\ settled[2].value = Str(<<"E","r","r","o"," ","a","o"," ","g","e","r","a","r"," ","a"," ","a","n","a'","l","i","s","e"," ","d","e"," ","r","i","s","c","o",".">>)
    /\ settled[3].outcome = "success"

\* without the key a call returns the message as well
C17_WitnessNoKey ==
    /\ ~apiKey
    /\ Len(settled) = 1
    /\ settled[1].outcome = "missing API key"
    /\ settled[1].value = Str(C17_Fallback[settled[1].fn])

-----------------------------------------------------------------------------
(* C18: an upload replaces the collection.                                 *)

\* C18: when the read of a file completes, the collection becomes exactly
\* what parseTeleinfoCsv returns for that file, whatever was loaded before
\* (the empty collection when the parse is fatal), and the file name shown
\* becomes the name of that file
C18_UploadReplaces ==
    [][ \A i \in 1..Len(reads) :
           reads' = C5_Without(reads, i) =>
               /\ projects' = ParsedFiles[reads[i]].rows
               /\ fileName' = reads[i]
               /\ (\E k \in 1..Len(ParsedFiles[reads[i]].alerts) :
                       ParsedFiles[reads[i]].alerts[k] \in FatalAlerts)
                     => projects' = <<>> ]_vars

\* b.csv has been loaded while the read of a.csv, chosen first, is pending
C18_Witness ==
    /\ reads = <<<<"a",".","c","s","v">>>>
    /\ fileName = <<"b",".","c","s","v">>
    /\ projects = ParsedFiles[<<"b",".","c","s","v">>].rows
    /\ projects # <<>>
    /\ projects # ParsedFiles[<<"a",".","c","s","v">>].rows

\* a file without a header line has been loaded after a.csv was chosen
C18_WitnessFatal ==
    /\ reads = <<<<"a",".","c","s","v">>>>
    /\ fileName = <<"n","o","h","e","a","d",".","c","s","v">>
    /\ projects = <<>>
    /\ lastAlerts # <<>>
    /\ lastAlerts[1] \in FatalAlerts

-----------------------------------------------------------------------------
(* C21: the resolution of the columns and the cells of a record.           *)

\* the 1-based position of the first token of the header line that, once
\* trimmed, equals name in some mix of upper and lower case; 0 when no
\* token does
C21_ColumnOf(headerLine, name) ==
    LET tokens == Split(headerLine, ";")
        at == {i \in 1..Len(tokens) : ToLowerCase(Trim(tokens[i])) = ToLowerCase(name)}
    IN  IF at = {} THEN 0 ELSE CHOOSE i \in at : \A j \in at : i <= j

\* the trimmed cell of a data line at a position; the empty string for
\* position 0 (column not found) and for a line with fewer cells
C21_CellAt(line, pos) ==
    LET cells == Split(line, ";")
    IN  IF pos = 0 \/ pos > Len(cells) THEN <<>> ELSE Trim(cells[pos])

C21_Cell(in, line, name) == C21_CellAt(line, C21_ColumnOf(in.headerLine, name))

\* C21: every record holds, for each column, the trimmed cell under the
\* first header token that equals the column's name ignoring case; the
\* empty string when there is no such token or the line is too short (a
\* null percentage for the % column); STATUS is that cell in upper case
C21_ColumnsResolved ==
    parsePc = "done" =>
        \A in \in {InFacts} :
            C4_ReachedRows(in) =>
                \A kept \in {C4_KeptLines(in)} :
                    /\ Len(rows) = Len(kept)
                    /\ \A k \in 1..Len(rows) :
                          /\ rows[k].CLIENTE = C21_Cell(in, kept[k], ColCLIENTE)
                          /\ rows[k].TIPO_DE_PROJETO = C21_Cell(in, kept[k], ColTIPO_DE_PROJETO)
                          /\ rows[k].TIPO_DE_PRODUTO = C21_Cell(in, kept[k], ColTIPO_DE_PRODUTO)
                          /\ rows[k].BUs = C21_Cell(in, kept[k], ColBUs)
                          /\ rows[k].C_Custo = C21_Cell(in, kept[k], ColC_Custo)
                          /\ rows[k].STATUS = ToUpperCase(C21_Cell(in, kept[k], ColSTATUS))
                          /\ rows[k].STATUS = Trim(rows[k].STATUS)
                          /\ rows[k].perc =
                                IF C21_Cell(in, kept[k], ColPerc) = <<>> THEN Null
                                ELSE normalizePercent(Str(C21_Cell(in, kept[k], ColPerc)))

\* under the header status;Cliente;STATUS;CLIENTE;%;% the first of each
\* pair of columns was read, and the short second line gave empty cells
\* and a null percentage
C21_Witness ==
    /\ parsePc = "done"
    /\ csvParts.header = << <<"s","t","a","t","u","s",";","C","l","i","e","n","t","e",";","S","T","A","T","U","S",";","C","L","I","E","N","T","E",";","%",";","%">> >>
    /\ csvParts.data = << <<"F","i","n","a","l","i","z","a","d","o",";","D","e","l","t","a",";","p","a","r","a","l","i","z","a","d","o",";","O","m","e","g","a",";","1","0",";","2","0">>, <<" ","G","a","m","a"," ",";"," ","n","A","o"," ","I","n","i","c","i","a","d","o">> >>
    /\ Len(rows) = 2
    /\ rows[1].STATUS = <<"F","I","N","A","L","I","Z","A","D","O">>
    /\ rows[1].CLIENTE = <<"D","e","l","t","a">>
    /\ rows[1].perc = Rat(10, 1)
    /\ rows[2].STATUS = <<"G","A","M","A">>
    /\ rows[2].CLIENTE = <<"n","A","o"," ","I","n","i","c","i","a","d","o">>
    /\ rows[2].BUs = <<>>
    /\ rows[2].perc = Null

-----------------------------------------------------------------------------
(* C27: the index of the slide shown.                                      *)

\* the index is one of the slides
C27_IndexOfASlide == currentSlideIndex \in 0..(slidesLength - 1)

\* a step in slide mode moves the index by at most one slide, or to the
\* first slide when slide mode is entered again, and stays within the
\* slides, so next at the last slide and previous at the first leave it
\* where it is; a step outside slide mode leaves the index alone, or enters
\* slide mode at the first slide
C27_Step ==
    /\ isSlideMode =>
          /\ currentSlideIndex' \in {0, currentSlideIndex - 1, currentSlideIndex,
                                     currentSlideIndex + 1}
          /\ currentSlideIndex = slidesLength - 1 => currentSlideIndex' # currentSlideIndex + 1
          /\ currentSlideIndex = 0 => currentSlideIndex' # currentSlideIndex - 1
          /\ ~isSlideMode' => currentSlideIndex' = currentSlideIndex
    /\ ~isSlideMode =>
          IF isSlideMode' THEN currentSlideIndex' = 0
          ELSE currentSlideIndex' = currentSlideIndex

\* C27: the index of the slide shown is always between 0 and
\* slides.length - 1; next at the last slide and previous at the first
\* slide leave it unchanged, entering slide mode sets it to 0, and outside
\* slide mode the arrow keys change nothing.
C27_SlideIndexInRange == [](C27_IndexOfASlide) /\ [][C27_Step]_vars

\* slide mode shows the last slide, the slide after those of two projects
C27_Witness ==
    /\ isSlideMode
    /\ Len(shownProjects) = 2
    /\ currentSlideIndex = slidesLength - 1

-----------------------------------------------------------------------------
(* C25: the reads of two files chosen one after the other.                 *)

\* C25: once no read is pending, the collection and the file name are
\* those of the file chosen last; a read of a file chosen earlier that
\* completes late does not overwrite them.
C25_LastSelectedWins ==
    (reads = <<>> /\ inputFile # <<>>) =>
        /\ fileName = inputFile
        /\ projects = ParsedFiles[inputFile].rows

\* no read is pending, b.csv was chosen last, and the dashboard shows a.csv
C25_Witness ==
    /\ reads = <<>>
    /\ inputFile = <<"b",".","c","s","v">>
    /\ fileName = <<"a",".","c","s","v">>
    /\ projects = ParsedFiles[<<"a",".","c","s","v">>].rows
    /\ projects # ParsedFiles[<<"b",".","c","s","v">>].rows

-----------------------------------------------------------------------------
(* C30: the filters when a file is loaded.                                 *)

\* C30: a read that completes and replaces the collection leaves the
\* status, business-unit and client filters as they were; a filter may
\* then hold a value that is none of the new options, and the filtered
\* view may be empty while the collection is not.
C30_FiltersSurviveLoad ==
    [][ Len(reads') < Len(reads) =>
            /\ statusFilter' = statusFilter
            /\ buFilter' = buFilter
            /\ clientFilter' = clientFilter ]_vars

\* b.csv was loaded while the status filter held a status of a.csv: the
\* filter is none of the options and no record of the collection is shown
C30_Witness ==
    /\ fileName = <<"b",".","c","s","v">>
    /\ projects # <<>>
    /\ statusFilter = <<"E","M"," ","A","N","D","A","M","E","N","T","O">>
    /\ statusFilter \notin ElementsOf(uniqueFilters.statuses)
    /\ filteredProjects = <<>>

-----------------------------------------------------------------------------
(* C24, C26: the risk-analysis dialog and the requests it makes.           *)

\* the dialog shows a text: it is open and no longer loading
C24_ShowsText == selectedProjectForRisk # Null /\ ~isLoading

\* what the service can answer to the request made for the project
C24_AnswersFor(project) ==
    { Str(AnalysisOf(project)), Str(FallbackMessage("generateProjectRiskAnalysis")) }

\* C24: the text a dialog shows is always the response to the request made
\* for the project it displays: the response to a request of a dialog that
\* was closed is discarded, and a dialog never shows the response made for
\* another project.
C24_TextOfDisplayedProject ==
    C24_ShowsText => analysis \in C24_AnswersFor(selectedProjectForRisk)

\* the same for the dialogs whose project never changed while they were
\* open: the responses to the requests of closed dialogs are discarded
C24_ClosedDialogsDiscarded ==
    ( /\ C24_ShowsText
      /\ \A k \in 1..Len(requests) :
            requests[k].mount = mounts => requests[k].project = selectedProjectForRisk )
        => analysis \in C24_AnswersFor(selectedProjectForRisk)

\* every request is settled, and the dialog of one project shows the text
\* answered for another
C24_Witness ==
    /\ C24_ShowsText
    /\ \A k \in 1..Len(requests) : requests[k].settled
    /\ \E p \in ElementsOf(projects) :
          p # selectedProjectForRisk /\ analysis = Str(AnalysisOf(p))

\* the dialog is open and shows the spinner
C26_Loading == selectedProjectForRisk # Null /\ isLoading

\* the dialog shows a text, or the user closed it
C26_Left ==
    \/ selectedProjectForRisk = Null /\ ~crashed
    \/ selectedProjectForRisk # Null /\ ~isLoading /\ analysis.kind = "string"

\* C26: a dialog that is open and loading eventually leaves the loading
\* state and shows the text of the collaborator or the fallback message
\* (unless it is closed before), every request being settled in the end.
C26_LeavesLoading == C26_Loading ~> C26_Left

\* the same, but for the page removed by a render that threw
C26_LeavesLoadingOrCrashes == C26_Loading ~> (C26_Left \/ crashed)

\* a response without text was awaited by the open dialog: the page is gone
C26_Witness ==
    /\ crashed
    /\ selectedProjectForRisk = Null
    /\ \E k \in 1..Len(requests) : requests[k].settled /\ requests[k].mount = mounts

-----------------------------------------------------------------------------
(* C22: the documents of the storage and the collections in memory.        *)

\* the collections of the view shown are what the documents hold
C22_MemoryIsStored ==
    /\ route = "/monitoring" =>
          detailedProjects = storedValueOf(localStorage, ProjectsKey)
    /\ route = "/presentation" =>
          /\ keyFacts = storedValueOf(localStorage, KeyFactsKey)
          /\ nextSteps = storedValueOf(localStorage, NextStepsKey)
          /\ shownProjects = storedValueOf(localStorage, ProjectsKey)

\* C22: every change of a persisted collection writes the whole collection,
\* so the document stored under its key always equals the collection in the
\* memory of the view that wrote it last, and a view mounted afterwards
\* reads that collection.
C22_DocumentEqualsMemory == C22_MemoryIsStored

\* the same while the storage takes what is written
C22_DocumentEqualsMemoryWhenWritten == ~storageFull => C22_MemoryIsStored

\* the storage refused the document of a save: the editor holds a project
\* the document lacks
C22_Witness ==
    /\ storageFull
    /\ route = "/monitoring"
    /\ selectedProjectId # NewProjectId
    /\ Len(detailedProjects) = Len(storedValueOf(localStorage, ProjectsKey)) + 1

-----------------------------------------------------------------------------
(* C23: a project saved, stored, read back and loaded into the editor.     *)

\* the collection as it is read back from the document written for it
C23_ReadBack(projs) == JSONparse(ProjectsKey, JSONstringify(ProjectsKey, projs))

\* every saved project, read back and selected, is in the editor as saved
C23_LoadedAsSaved ==
    \A i \in 1..Len(detailedProjects) :
        CurrentAfterEffect(C23_ReadBack(detailedProjects), detailedProjects[i].id,
                           initialProjectState)
            = WithoutId(detailedProjects[i])

\* the editor holds the selected project as it was loaded
C23_Unedited ==
    /\ route = "/monitoring"
    /\ selectedProjectId # NewProjectId
    /\ currentProject = CurrentAfterEffect(detailedProjects, selectedProjectId, currentProject)

\* a step taken while the editor holds a project as loaded, a save included,
\* leaves the document of the projects as it is
C23_ResaveKeepsDocument ==
    (C23_Unedited /\ route' = route) =>
        localStorage'[ProjectsKey] = localStorage[ProjectsKey]

\* C23: a saved project that is serialized, read back and loaded into the
\* editor has the name, start, end, steps, sold hours and used hours it was
\* saved with, and saving it again without an edit leaves the stored
\* collection as it is.
C23_RoundTrip == [](C23_LoadedAsSaved) /\ [][C23_ResaveKeepsDocument]_vars

\* no two saved projects have the same id
C23_UniqueIds ==
    \A i, j \in 1..Len(detailedProjects) :
        detailedProjects[i].id = detailedProjects[j].id => i = j

\* the same for the collections in which no id occurs twice
C23_RoundTripOfUniqueIds ==
    /\ [](C23_UniqueIds => C23_LoadedAsSaved)
    /\ [][C23_UniqueIds => C23_ResaveKeepsDocument]_vars

\* two saved projects with one id and two names: the editor holds the first
C23_Witness ==
    /\ route = "/monitoring"
    /\ Len(detailedProjects) = 2
    /\ detailedProjects[1].id = detailedProjects[2].id
    /\ detailedProjects[1].name # detailedProjects[2].name
    /\ selectedProjectId = detailedProjects[2].id
    /\ currentProject.name = detailedProjects[1].name

-----------------------------------------------------------------------------
(* C28: what is rejected.                                                  *)

\* the ids of the saved projects
C28_Ids == {detailedProjects[i].id : i \in 1..Len(detailedProjects)}

\* C28: while the name in the editor is blank a save is rejected, for a new
\* project and for an existing one: the collection and its document stay as
\* they are and no new id is selected; while the text of the key fact is
\* blank, or the project or the description of the next step is, nothing is
\* added to the key facts, or to the next steps, or to their documents.
C28_BlankRejected ==
    [][ route' = route =>
          /\ (route = "/monitoring" /\ Trim(currentProject.name) = <<>>) =>
                /\ detailedProjects' = detailedProjects
                /\ localStorage' = localStorage
                /\ selectedProjectId' \in {selectedProjectId, NewProjectId} \cup C28_Ids
          /\ (route = "/presentation" /\ Trim(newFactText) = <<>>) =>
                /\ Len(keyFacts') <= Len(keyFacts)
                /\ keyFacts' = keyFacts =>
                      localStorage'[KeyFactsKey] = localStorage[KeyFactsKey]
          /\ ( /\ route = "/presentation"
               /\ Trim(newNextStepProject) = <<>> \/ Trim(newNextStepDesc) = <<>> ) =>
                /\ Len(nextSteps') <= Len(nextSteps)
                /\ nextSteps' = nextSteps =>
                      localStorage'[NextStepsKey] = localStorage[NextStepsKey] ]_vars

\* the editor holds a saved project whose name was made blank, and the
\* saved project has its name
C28_Witness ==
    /\ route = "/monitoring"
    /\ selectedProjectId \in C28_Ids
    /\ currentProject.name = <<" ">>
    /\ \A i \in 1..Len(detailedProjects) : Trim(detailedProjects[i].name) # <<>>
    /\ ~storageFull
    /\ detailedProjects = storedValueOf(localStorage, ProjectsKey)

-----------------------------------------------------------------------------
(* C29: what a save changes in the collection.                             *)

\* C29: a save that creates a project appends one entry and leaves the
\* entries before it as they were; a save of an existing project leaves the
\* size, the order of the ids and every entry of another id as they were;
\* the collection of the editor never shrinks.
C29_SaveChangesOneEntry ==
    [][ (route = "/monitoring" /\ route' = route) =>
          /\ Len(detailedProjects') >= Len(detailedProjects)
          /\ detailedProjects' # detailedProjects =>
                IF selectedProjectId = NewProjectId
                THEN /\ Len(detailedProjects') = Len(detailedProjects) + 1
                     /\ SubSeq(detailedProjects', 1, Len(detailedProjects)) = detailedProjects
                     /\ WithoutId(detailedProjects'[Len(detailedProjects')]) = currentProject
                ELSE /\ Len(detailedProjects') = Len(detailedProjects)
                     /\ \A i \in 1..Len(detailedProjects) :
                           /\ detailedProjects'[i].id = detailedProjects[i].id
                           /\ detailedProjects[i].id # selectedProjectId =>
                                 detailedProjects'[i] = detailedProjects[i]
                           /\ detailedProjects[i].id = selectedProjectId =>
                                 WithoutId(detailedProjects'[i]) = currentProject ]_vars

\* a project was created after the stored one and then saved again with an
\* end date: the stored one is as it was
C29_Witness ==
    /\ route = "/monitoring"
    /\ Len(detailedProjects) = 2
    /\ detailedProjects[1].name = <<"B","e","t","a">>
    /\ detailedProjects[1].id # detailedProjects[2].id
    /\ detailedProjects[2].end # <<>>
    /\ selectedProjectId = detailedProjects[2].id

=============================================================================
